---- MODULE Spec2Model ----
(***************************************************************************)
(* Model of the NinjaOne API client (src/src/ninja.ts) and of the two      *)
(* front ends that call it (src/src/server.ts).                            *)
(*                                                                         *)
(* Strings that the code transforms (percent-encoding, lower-casing,       *)
(* joining, template interpolation) are sequences of one-character         *)
(* strings.  JavaScript values whose truthiness the code tests are         *)
(* written as the source literal that denotes them ("undefined", "0",      *)
(* "'yes'", ...).                                                          *)
(***************************************************************************)
EXTENDS Integers, Sequences, FiniteSets

\* ------------------------------------------------------------------------
\* Bounds of the model
\* ------------------------------------------------------------------------
MaxCalls == 2
MaxNow == 1
MaxIssued == 4
MaxParts == 3
MaxClauseLen == 1
MaxObtainedAt == 2
MaxExpiresIn == 63

\* ------------------------------------------------------------------------
\* Program constants
\* ------------------------------------------------------------------------
RefreshMargin == 60
RetryLimit == 4
ReauthLimit == 1
BackoffBase == 250
BackoffCap == 5000
MsPerSecond == 1000

Calls == 1..MaxCalls

Min(a, b) == IF a < b THEN a ELSE b

RECURSIVE Pow2(_)
Pow2(n) == IF n = 0 THEN 1 ELSE 2 * Pow2(n - 1)

\* Math.floor(Date.now() / 1000)
EpochSeconds(ms) == ms \div MsPerSecond

\* ------------------------------------------------------------------------
\* Token manager
\* ------------------------------------------------------------------------
\* this.token before the first acquisition (undefined)
NoToken == [held |-> FALSE, access_token |-> 0, expires_in |-> 0, obtained_at |-> 0]

NewToken(access, expires, ms) ==
  [held |-> TRUE, access_token |-> access, expires_in |-> expires,
   obtained_at |-> EpochSeconds(ms)]

tokenFreshInclusive(tok, ms) ==
  IF ~tok.held THEN FALSE
  ELSE EpochSeconds(ms) <= tok.obtained_at + tok.expires_in - RefreshMargin

tokenFresh(tok, ms) ==
  IF ~tok.held THEN FALSE
  ELSE EpochSeconds(ms) < tok.obtained_at + tok.expires_in - RefreshMargin


\* ------------------------------------------------------------------------
\* Strings (sequences of one-character strings) and the filter encoder
\* ------------------------------------------------------------------------
RECURSIVE Concat(_)
\* the concatenation of a sequence of strings
Concat(ss) == IF ss = <<>> THEN <<>> ELSE Head(ss) \o Concat(Tail(ss))

RECURSIVE Join(_, _)
\* Array.prototype.join
Join(ss, sep) ==
  IF ss = <<>> THEN <<>>
  ELSE IF Len(ss) = 1 THEN ss[1]
  ELSE ss[1] \o sep \o Join(Tail(ss), sep)

\* the characters encodeURIComponent leaves alone
Unreserved ==
  {"A", "B", "C", "D", "E", "F", "G", "H", "I", "J", "K", "L", "M", "N", "O", "P",
   "Q", "R", "S", "T", "U", "V", "W", "X", "Y", "Z", "a", "b", "c", "d", "e", "f",
   "g", "h", "i", "j", "k", "l", "m", "n", "o", "p", "q", "r", "s", "t", "u", "v",
   "w", "x", "y", "z", "0", "1", "2", "3", "4", "5", "6", "7", "8", "9", "-", "_",
   ".", "!", "~", "*", "'", "(", ")"}

\* The percent-code of a character: its UTF-8 bytes, each written %XX.  A
\* character is a string of one character: the characters U+0009 to U+000D
\* and U+0020 to U+007E are written as themselves, except the grave accent,
\* which a string of this notation cannot hold; it and the white space
\* characters outside ASCII are written as their code points ("U+0060",
\* "U+00A0").  No other character has a spelling here.
PercentCode(c) ==
  LET Hex == <<"0", "1", "2", "3", "4", "5", "6", "7", "8", "9",
               "A", "B", "C", "D", "E", "F">>
      \* U+0009 to U+000D
      Control == <<"\t", "\n", "", "\f", "\r">>
      \* U+0020 to U+007E
      Ascii == <<" ", "!", "\"", "#", "$", "%", "&", "'", "(", ")", "*", "+", ",", "-", ".", "/",
               "0", "1", "2", "3", "4", "5", "6", "7", "8", "9", ":", ";", "<", "=", ">", "?",
               "@", "A", "B", "C", "D", "E", "F", "G", "H", "I", "J", "K", "L", "M", "N", "O",
               "P", "Q", "R", "S", "T", "U", "V", "W", "X", "Y", "Z", "[", "\\", "]", "^", "_",
               "U+0060", "a", "b", "c", "d", "e", "f", "g", "h", "i", "j", "k", "l", "m", "n", "o",
               "p", "q", "r", "s", "t", "u", "v", "w", "x", "y", "z", "{", "|", "}", "~">>
      Points == <<<<"U+00A0", 160>>, <<"U+1680", 5760>>, <<"U+2000", 8192>>, <<"U+2001", 8193>>,
                <<"U+2002", 8194>>, <<"U+2003", 8195>>, <<"U+2004", 8196>>, <<"U+2005", 8197>>,
                <<"U+2006", 8198>>, <<"U+2007", 8199>>, <<"U+2008", 8200>>, <<"U+2009", 8201>>,
                <<"U+200A", 8202>>, <<"U+2028", 8232>>, <<"U+2029", 8233>>, <<"U+202F", 8239>>,
                <<"U+205F", 8287>>, <<"U+3000", 12288>>, <<"U+FEFF", 65279>>>>
      CodePoint ==
        IF \E i \in 1..Len(Ascii) : Ascii[i] = c
        THEN 31 + (CHOOSE i \in 1..Len(Ascii) : Ascii[i] = c)
        ELSE IF \E i \in 1..Len(Control) : Control[i] = c
        THEN 8 + (CHOOSE i \in 1..Len(Control) : Control[i] = c)
        ELSE Points[CHOOSE i \in 1..Len(Points) : Points[i][1] = c][2]
      Byte(b) == <<"%", Hex[(b \div 16) + 1], Hex[(b % 16) + 1]>>
  IN IF CodePoint < 128 THEN Byte(CodePoint)
     ELSE IF CodePoint < 2048
     THEN Byte(192 + (CodePoint \div 64)) \o Byte(128 + (CodePoint % 64))
     ELSE Byte(224 + (CodePoint \div 4096)) \o Byte(128 + ((CodePoint \div 64) % 64))
          \o Byte(128 + (CodePoint % 64))

encodeURIComponent(str) ==
  Concat([i \in 1..Len(str) |->
            IF str[i] \in Unreserved THEN <<str[i]>> ELSE PercentCode(str[i])])

\* JavaScript values: t is the type, s the text of a string or the decimal
\* digits of a number
Undefined == [t |-> "undefined", s |-> <<>>]
Null == [t |-> "null", s |-> <<>>]
False == [t |-> "false", s |-> <<>>]
True == [t |-> "true", s |-> <<>>]
NaN == [t |-> "nan", s |-> <<>>]
Str(str) == [t |-> "string", s |-> str]
Num(digits) == [t |-> "number", s |-> digits]
\* an object, known by the names of its own keys
Obj(keys) == [t |-> "object", s |-> keys]

\* Boolean(v), !!v, and the test of `if (v)`
Truthy(v) ==
  CASE v.t = "string" -> v.s # <<>>
    [] v.t = "number" -> v.s # <<"0">>
    [] v.t \in {"true", "object"} -> TRUE
    [] OTHER -> FALSE

\* v ?? d
Nullish(v) == v.t \in {"undefined", "null"}
OrElse(v, d) == IF Nullish(v) THEN d ELSE v

\* String(v) and `${v}`
StringOf(v) ==
  CASE v.t \in {"string", "number"} -> v.s
    [] v.t = "undefined" -> <<"u", "n", "d", "e", "f", "i", "n", "e", "d">>
    [] v.t = "null" -> <<"n", "u", "l", "l">>
    [] v.t = "true" -> <<"t", "r", "u", "e">>
    [] v.t = "false" -> <<"f", "a", "l", "s", "e">>
    [] v.t = "nan" -> <<"N", "a", "N">>

Digits == {"0", "1", "2", "3", "4", "5", "6", "7", "8", "9"}

UpperAlphabet == <<"A", "B", "C", "D", "E", "F", "G", "H", "I", "J", "K", "L", "M", "N", "O", "P", "Q", "R", "S", "T", "U", "V", "W", "X", "Y", "Z">>
LowerAlphabet == <<"a", "b", "c", "d", "e", "f", "g", "h", "i", "j", "k", "l", "m", "n", "o", "p", "q", "r", "s", "t", "u", "v", "w", "x", "y", "z">>

\* String.prototype.toLowerCase
toLowerCase(str) ==
  [i \in 1..Len(str) |->
     IF \E k \in 1..Len(UpperAlphabet) : UpperAlphabet[k] = str[i]
     THEN LowerAlphabet[CHOOSE k \in 1..Len(UpperAlphabet) : UpperAlphabet[k] = str[i]]
     ELSE str[i]]

\* WhiteSpace and LineTerminator of ECMAScript, the characters that
\* String.prototype.trim and Number() drop: U+0009 to U+000D, the space, and
\* the white space outside ASCII, each written as its code point.
WhiteSpace ==
  {"\t", "\n", "", "\f", "\r", " ",
   "U+00A0", "U+1680", "U+2000", "U+2001", "U+2002", "U+2003", "U+2004",
   "U+2005", "U+2006", "U+2007", "U+2008", "U+2009", "U+200A", "U+2028",
   "U+2029", "U+202F", "U+205F", "U+3000", "U+FEFF"}

\* String.prototype.trim
trim(str) ==
  IF \A i \in 1..Len(str) : str[i] \in WhiteSpace THEN <<>>
  ELSE SubSeq(str,
              CHOOSE i \in 1..Len(str) :
                str[i] \notin WhiteSpace /\ \A j \in 1..(i - 1) : str[j] \in WhiteSpace,
              CHOOSE i \in 1..Len(str) :
                str[i] \notin WhiteSpace /\ \A j \in (i + 1)..Len(str) : str[j] \in WhiteSpace)

\* Number(str): StringToNumber, then the number written as String(number)
\* writes it.  White space around the literal is dropped and the empty string
\* is 0; a literal is an optionally signed decimal (digits, fraction,
\* exponent) or Infinity, or an unsigned 0x, 0o or 0b integer; anything else
\* is NaN.  The value of a literal is the double nearest to it, ties to the
\* even significand, Infinity from 2^1024 - 2^970 on and 0 up to 2^-1075;
\* String(number) writes the fewest digits that read back as the same double.
\* Naturals beyond 2^31 are kept as their base-10000 digits, least
\* significant first (<<>> is zero); a double is m * 2^e with m < 2^53.
ToNumber(str) ==
  LET body == trim(str)
      Scale == <<"0", "1", "2", "3", "4", "5", "6", "7", "8", "9",
                 "a", "b", "c", "d", "e", "f">>
      Low(ch) == toLowerCase(<<ch>>)[1]
      DigitOf(ch) == CHOOSE d \in 0..15 : Scale[d + 1] = Low(ch)
      IsDigitsIn(t, base) ==
        \A i \in 1..Len(t) : \E d \in 0..(base - 1) : Scale[d + 1] = Low(t[i])
      Value(t, base) ==
        LET val[i \in 0..Len(t)] ==
              IF i = 0 THEN 0 ELSE val[i - 1] * base + DigitOf(t[i])
        IN val[Len(t)]
      First(t, chars) ==
        IF \E i \in 1..Len(t) : t[i] \in chars
        THEN CHOOSE i \in 1..Len(t) : t[i] \in chars /\ \A j \in 1..(i - 1) : t[j] \notin chars
        ELSE 0
      \* t without its leading zeros, without its trailing zeros
      Lead(t) ==
        IF \A i \in 1..Len(t) : t[i] = "0" THEN <<>>
        ELSE SubSeq(t, CHOOSE i \in 1..Len(t) :
                         t[i] # "0" /\ \A j \in 1..(i - 1) : t[j] = "0", Len(t))
      Trail(t) ==
        IF \A i \in 1..Len(t) : t[i] = "0" THEN <<>>
        ELSE SubSeq(t, 1, CHOOSE i \in 1..Len(t) :
                            t[i] # "0" /\ \A j \in (i + 1)..Len(t) : t[j] = "0")
      Zeros(k) == [i \in 1..k |-> "0"]
      Pow10 == <<1, 10, 100, 1000, 10000, 100000, 1000000, 10000000, 100000000, 1000000000>>
      \* the decimal digits of a natural number below 2^31
      Decimal(k) ==
        IF k = 0 THEN <<"0">>
        ELSE Lead([i \in 1..10 |-> Scale[((k \div Pow10[11 - i]) % 10) + 1]])
      Infinity == <<"I", "n", "f", "i", "n", "i", "t", "y">>
      Signed(neg, t) == IF neg THEN <<"-">> \o t ELSE t
      \* Number::toString of the digits sig (no zero at either end) with the
      \* decimal point after the first n of them
      Written(sig, n) ==
        LET k == Len(sig)
        IN IF k <= n /\ n <= 21 THEN sig \o Zeros(n - k)
           ELSE IF 0 < n /\ n <= 21 THEN SubSeq(sig, 1, n) \o <<".">> \o SubSeq(sig, n + 1, k)
           ELSE IF -6 < n /\ n <= 0 THEN <<"0", ".">> \o Zeros(0 - n) \o sig
           ELSE <<sig[1]>> \o (IF k > 1 THEN <<".">> \o Tail(sig) ELSE <<>>)
                  \o <<"e">> \o (IF n - 1 >= 0 THEN <<"+">> \o Decimal(n - 1)
                                  ELSE <<"-">> \o Decimal(1 - n))
      \* result, once the values it is computed from have been evaluated, one
      \* after the other: a value is evaluated where it is first read, and
      \* values first read one inside the other nest deeply
      Having(values, result) == IF values = values THEN result ELSE result
      \* arithmetic on naturals of any size
      Base == 10000
      Positive(x) == IF x > 0 THEN x ELSE 0
      Two == <<1, 2, 4, 8, 16, 32, 64, 128, 256, 512, 1024, 2048, 4096>>
      Limb(a, i) == IF 1 <= i /\ i <= Len(a) THEN a[i] ELSE 0
      \* a without its leading zero digits
      Norm(a) ==
        IF a # <<>> /\ a[Len(a)] # 0 THEN a
        ELSE IF \A i \in 1..Len(a) : a[i] = 0 THEN <<>>
        ELSE SubSeq(a, 1, CHOOSE i \in 1..Len(a) :
                            a[i] # 0 /\ \A j \in (i + 1)..Len(a) : a[j] = 0)
      \* a carry enters position i when a position below overflows and every
      \* position between the two passes a carry on
      Plus(a, b) ==
        LET n == (IF Len(a) > Len(b) THEN Len(a) ELSE Len(b)) + 1
            sums == [i \in 1..n |-> Limb(a, i) + Limb(b, i)]
            Carry(i) ==
              IF /\ i > 1
                 /\ \/ sums[i - 1] >= Base
                    \/ /\ sums[i - 1] = Base - 1
                       /\ \E j \in 1..(i - 2) :
                            sums[j] >= Base /\ \A l \in (j + 1)..(i - 2) : sums[l] = Base - 1
              THEN 1 ELSE 0
            total == [i \in 1..n |-> (sums[i] + Carry(i)) % Base]
        IN Having(<<sums, total>>, Norm(total))
      \* a - b for a >= b; position i lends to the positions below in the
      \* same way
      Minus(a, b) ==
        LET Borrow(i) ==
              IF /\ i > 1
                 /\ \/ a[i - 1] < Limb(b, i - 1)
                    \/ /\ a[i - 1] = Limb(b, i - 1)
                       /\ \E j \in 1..(i - 2) :
                            a[j] < Limb(b, j) /\ \A l \in (j + 1)..(i - 2) : a[l] = Limb(b, l)
              THEN 1 ELSE 0
            rest == [i \in 1..Len(a) |-> (a[i] - Limb(b, i) - Borrow(i) + Base) % Base]
        IN Having(<<a, b, rest>>, Norm(rest))
      \* -1, 0 or 1 as a is below, equal to or above b
      Compare(a, b) ==
        IF Len(a) # Len(b) THEN (IF Len(a) < Len(b) THEN -1 ELSE 1)
        ELSE IF a = <<>> THEN 0
        ELSE IF a[Len(a)] # b[Len(a)] THEN (IF a[Len(a)] < b[Len(a)] THEN -1 ELSE 1)
        ELSE IF a = b THEN 0
        ELSE IF \E j \in 1..Len(a) : a[j] < b[j] /\ \A l \in (j + 1)..Len(a) : a[l] = b[l]
        THEN -1 ELSE 1
      \* a * k for 0 <= k < Base
      Times(a, k) ==
        IF a = <<>> \/ k = 0 THEN <<>>
        ELSE Plus([i \in 1..Len(a) |-> (a[i] * k) % Base],
                  <<0>> \o [i \in 1..Len(a) |-> (a[i] * k) \div Base])
      \* a * Base^k
      Shift(a, k) == IF a = <<>> THEN <<>> ELSE [i \in 1..k |-> 0] \o a
      TimesPow10(a, p) == Shift(Times(a, Pow10[(p % 4) + 1]), p \div 4)
      RECURSIVE TimesPow2(_, _)
      TimesPow2(a, p) ==
        IF a = <<>> THEN <<>>
        ELSE IF p <= 12 THEN Times(a, Two[p + 1])
        ELSE TimesPow2(TimesPow2(a, p \div 2), p - (p \div 2))
      RECURSIVE Product(_, _)
      Product(a, b) ==
        IF a = <<>> \/ b = <<>> THEN <<>>
        ELSE IF Len(b) = 1 THEN Times(a, b[1])
        ELSE Plus(Product(a, SubSeq(b, 1, Len(b) \div 2)),
                  Shift(Product(a, SubSeq(b, (Len(b) \div 2) + 1, Len(b))), Len(b) \div 2))
      \* the natural written by the decimal digits t, and back
      Natural(t) ==
        Norm([j \in 1..((Len(t) + 3) \div 4) |->
                Value(SubSeq(t, IF Len(t) - 4 * j + 1 < 1 THEN 1 ELSE Len(t) - 4 * j + 1,
                             Len(t) - 4 * (j - 1)), 10)])
      Figures(a) ==
        Lead(Concat([j \in 1..Len(a) |->
                       LET limb == a[Len(a) + 1 - j]
                       IN <<Scale[(limb \div 1000) + 1], Scale[((limb \div 100) % 10) + 1],
                            Scale[((limb \div 10) % 10) + 1], Scale[(limb % 10) + 1]>>]))
      \* the number of decimal digits of a > 0
      Size(a) == 4 * (Len(a) - 1) + Len(Decimal(a[Len(a)]))
      RECURSIVE InBase(_, _)
      \* the natural written by the digits t of a 0x, 0o or 0b literal, each
      \* digit standing for that many bits
      InBase(t, bits) ==
        IF Len(t) = 1 THEN Norm(<<DigitOf(t[1])>>)
        ELSE Plus(TimesPow2(InBase(SubSeq(t, 1, Len(t) \div 2), bits),
                            bits * (Len(t) - (Len(t) \div 2))),
                  InBase(SubSeq(t, (Len(t) \div 2) + 1, Len(t)), bits))
      \* the largest k with k * s <= r, for r < s * Base and a leading digit
      \* of s from Base / 2 on: the quotient of the leading digits is k, k + 1
      \* or k + 2
      Digit(r, s) ==
        LET lead == (Limb(r, Len(s) + 1) * Base + Limb(r, Len(s))) \div s[Len(s)]
            guess == IF lead > Base - 1 THEN Base - 1 ELSE lead
        IN IF Compare(Times(s, guess), r) <= 0 THEN guess
           ELSE IF Compare(Times(s, guess - 1), r) <= 0 THEN guess - 1
           ELSE guess - 2
      \* one digit of a long division by d: q is the quotient so far, r what
      \* is left to divide
      Step(had, d, k) ==
        LET s == Shift(d, k - 1)
            digit == Digit(had.r, s)
        IN IF had.r = <<>> THEN [q |-> <<0>> \o had.q, r |-> <<>>]
           ELSE [q |-> <<digit>> \o had.q, r |-> Minus(had.r, Times(s, digit))]
      \* quotient and remainder of a by b, for a quotient below Base^5; both
      \* are scaled first to give b its leading digit, which scales the
      \* remainder too
      Divide(a, b) ==
        LET scale == Base \div (b[Len(b)] + 1)
            d == Times(b, scale)
            fifth == Step([q |-> <<>>, r |-> Times(a, scale)], d, 5)
            fourth == Step(fifth, d, 4)
            third == Step(fourth, d, 3)
            second == Step(third, d, 2)
            first == Step(second, d, 1)
        IN Having(<<a, b, d, fifth, fourth, third, second, first>>,
                  [q |-> Norm(first.q), r |-> first.r, d |-> d])
      Two52 == TimesPow2(<<1>>, 52)
      Two53 == TimesPow2(<<1>>, 53)
      \* the double nearest to sum * 10^q, for sum > 0
      Double(sum, q) ==
        LET size == Size(sum) + q
            above == TimesPow10(sum, Positive(q))
            below == TimesPow10(<<1>>, Positive(0 - q))
            Top(x) == TimesPow2(above, Positive(0 - x))
            Bottom(x) == TimesPow2(below, Positive(x))
            \* 2^52 <= sum * 10^q / 2^normal < 2^53, near log2(10) * size - 53
            about == (((size - 1) * 3322) \div 1000) - 53
            normal == CHOOSE x \in (about - 3)..(about + 7) :
                        /\ Compare(Top(x), TimesPow2(Bottom(x), 53)) < 0
                        /\ Compare(Top(x), TimesPow2(Bottom(x), 52)) >= 0
            e == IF normal < -1074 THEN -1074 ELSE normal
            split == Divide(Top(e), Bottom(e))
            half == Compare(Times(split.r, 2), split.d)
            odd == split.q # <<>> /\ split.q[1] % 2 = 1
            m == IF half > 0 \/ (half = 0 /\ odd) THEN Plus(split.q, <<1>>) ELSE split.q
        IN IF size > 310 THEN [is |-> "infinity"]
           ELSE IF size < -326 THEN [is |-> "zero"]
           ELSE Having(<<above, below, normal, split, m>>,
                  IF m = <<>> THEN [is |-> "zero"]
                  ELSE IF (IF m = Two53 THEN e + 1 ELSE e) > 971 THEN [is |-> "infinity"]
                  ELSE IF m = Two53 THEN [is |-> "finite", m |-> Two52, e |-> e + 1]
                  ELSE [is |-> "finite", m |-> m, e |-> e])
      \* Number::toString of the double m * 2^e
      Shortest(m, e) ==
        LET \* in units of 2^(e-2) the double is 4m and the doubles next to it
            \* are halfway at low and high
            low == Minus(Times(m, 4), IF m = Two52 /\ e > -1074 THEN <<1>> ELSE <<2>>)
            high == Plus(Times(m, 4), <<2>>)
            even == m[1] % 2 = 0
            whole == TimesPow2(<<1>>, Positive(e - 2))
            part == TimesPow2(<<1>>, Positive(2 - e))
            \* sign of 10^p - 4m * 2^(e-2)
            Against(p) ==
              Compare(TimesPow10(part, Positive(p)),
                      Product(TimesPow10(whole, Positive(0 - p)), Times(m, 4)))
            \* 10^(n-1) <= m * 2^e < 10^n, near log10(m) + log10(2) * e
            about == Size(m) + ((e * 30103) \div 100000)
            n == CHOOSE x \in (about - 2)..(about + 2) : Against(x) > 0 /\ Against(x - 1) <= 0
            \* s * 10^(n-17) = s * up / down in units of 2^(e-2)
            up == TimesPow10(part, Positive(n - 17))
            down == TimesPow10(whole, Positive(17 - n))
            lowest == Product(down, low)
            highest == Product(down, high)
            here == Product(down, Times(m, 4))
            \* the first 17 digits of the double
            digits == Figures(Divide(here, up).q)
            \* the largest s with s * 10^(n-k) at or below the double
            Floor(k) == Natural(SubSeq(digits, 1, k))
            \* s * 10^(n-k) * down
            Raised(s, k) == Product(up, TimesPow10(s, 17 - k))
            \* s * 10^(n-k) reads back as the double
            Reads(s, k) ==
              LET l == Compare(Raised(s, k), lowest)
                  h == Compare(Raised(s, k), highest)
              IN s # <<>> /\ (l > 0 \/ (l = 0 /\ even)) /\ (h < 0 \/ (h = 0 /\ even))
            \* of s and s + 1 the nearer to the double, the even one of a tie
            Nearer(s, k) ==
              LET c == Compare(Raised(Plus(Times(s, 2), <<1>>), k), Times(here, 2))
              IN IF c < 0 \/ (c = 0 /\ Limb(s, 1) % 2 = 1) THEN Plus(s, <<1>>) ELSE s
            \* the k digits that read back as the double, <<>> when none do
            Shown(k) ==
              LET s == Floor(k)
                  t == Plus(s, <<1>>)
              IN IF Reads(s, k) /\ Reads(t, k) THEN Nearer(s, k)
                 ELSE IF Reads(s, k) THEN s
                 ELSE IF Reads(t, k) THEN t
                 ELSE <<>>
            \* 17 digits tell any two doubles apart
            shown == [k \in 1..17 |-> Shown(k)]
            fewest == CHOOSE k \in 1..17 :
                        shown[k] # <<>> /\ \A j \in 1..(k - 1) : shown[j] = <<>>
        IN Having(<<whole, part, low, high, n, up, down, lowest, highest, here,
                    digits, shown, fewest>>,
                  Written(Trail(Figures(shown[fewest])),
                          n + Len(Figures(shown[fewest])) - fewest))
      \* String(Number) of the natural sum times 10^q
      Rounded(neg, sum, q) ==
        LET d == Double(sum, q)
        IN IF d.is = "infinity" THEN Num(Signed(neg, Infinity))
           ELSE IF d.is = "zero" THEN Num(<<"0">>)
           ELSE Num(Signed(neg, Shortest(d.m, d.e)))
      \* an unsigned decimal literal u, negated when neg
      DecimalLiteral(neg, u) ==
        LET e == First(u, {"e", "E"})
            mant == IF e = 0 THEN u ELSE SubSeq(u, 1, e - 1)
            expo == IF e = 0 THEN <<>> ELSE SubSeq(u, e + 1, Len(u))
            expNeg == expo # <<>> /\ expo[1] = "-"
            expDigits == IF expo # <<>> /\ expo[1] \in {"+", "-"} THEN Tail(expo) ELSE expo
            dot == First(mant, {"."})
            int == IF dot = 0 THEN mant ELSE SubSeq(mant, 1, dot - 1)
            frac == IF dot = 0 THEN <<>> ELSE SubSeq(mant, dot + 1, Len(mant))
            valid == /\ IsDigitsIn(int, 10)
                     /\ IsDigitsIn(frac, 10)
                     /\ int \o frac # <<>>
                     /\ e # 0 => (expDigits # <<>> /\ IsDigitsIn(expDigits, 10))
            all == int \o frac
            sig == Trail(Lead(all))
            shift == IF Len(Lead(expDigits)) > 4 THEN 10000 ELSE Value(Lead(expDigits), 10)
            n == Len(int) - (Len(all) - Len(Lead(all))) + (IF expNeg THEN 0 - shift ELSE shift)
        IN IF ~valid THEN NaN
           ELSE IF sig = <<>> THEN Num(<<"0">>)
           \* up to 15 digits, away from the ends of the range, the double
           \* reads back as the digits of the literal
           ELSE IF Len(sig) <= 15 /\ -300 <= n /\ n <= 300
           THEN Num(Signed(neg, Written(sig, n)))
           ELSE Rounded(neg, Natural(sig), n - Len(sig))
      \* the bits of a digit after 0x, 0o, 0b
      Radix(ch) == CASE Low(ch) = "x" -> 4 [] Low(ch) = "o" -> 3 [] Low(ch) = "b" -> 1 [] OTHER -> 0
  IN IF body = <<>> THEN Num(<<"0">>)
     ELSE IF Len(body) >= 3 /\ body[1] = "0" /\ Radix(body[2]) # 0
     THEN (IF ~IsDigitsIn(SubSeq(body, 3, Len(body)), Two[Radix(body[2]) + 1]) THEN NaN
           ELSE IF Lead(SubSeq(body, 3, Len(body))) = <<>> THEN Num(<<"0">>)
           ELSE Rounded(FALSE, InBase(Lead(SubSeq(body, 3, Len(body))), Radix(body[2])), 0))
     ELSE LET neg == body[1] = "-"
              u == IF body[1] \in {"+", "-"} THEN Tail(body) ELSE body
          IN IF u = Infinity THEN Num(Signed(neg, Infinity))
             ELSE DecimalLiteral(neg, u)

SepAnd == <<" ", "A", "N", "D", " ">>

encodeDfNoFilter(ps) ==
  IF \A i \in 1..Len(ps) : ~Truthy(ps[i]) THEN Undefined
  ELSE Str(encodeURIComponent(Join([i \in 1..Len(ps) |-> ps[i].s], SepAnd)))

encodeDf(ps) ==
  LET clauses == SelectSeq(ps, Truthy)
  IN IF Len(clauses) = 0 THEN Undefined
     ELSE Str(encodeURIComponent(Join([i \in 1..Len(clauses) |-> clauses[i].s], SepAnd)))

\* ------------------------------------------------------------------------
\* State
\* ------------------------------------------------------------------------
VARIABLES
  token,           \* NinjaApiClient.token
  runscriptStyle,  \* NinjaApiClient.runscriptStyle
  clock,           \* Date.now(), in milliseconds
  issued,          \* number of access tokens the token endpoint has handed out
  calls,           \* one record per invocation of authed: position, attempt, history
  readOnlyEnv,     \* process.env.READ_ONLY
  refused,         \* the latest front-end request that assertWritable refused
  parts,           \* argument of encodeDf
  dfOut,           \* result of encodeDf
  freshOut         \* result of tokenFresh

vars == <<token, runscriptStyle, clock, issued, calls, readOnlyEnv, refused,
          parts, dfOut, freshOut>>

\* ------------------------------------------------------------------------
\* The remote
\* ------------------------------------------------------------------------
\* err?.response?.status: a failure either carries a response with a status
\* or (network error, timeout) carries none.
NoResponse == [response |-> FALSE, status |-> 0]
HttpResponse(s) == [response |-> TRUE, status |-> s]

Statuses == {200, 401, 404, 429, 500, 599}
Outcomes == {HttpResponse(s) : s \in Statuses} \cup {NoResponse}

\* the answers explored while several calls interleave
CoreStatuses == {200, 401, 404, 500}
CoreOutcomes == {HttpResponse(s) : s \in CoreStatuses} \cup {NoResponse}

\* axios resolves on 2xx and rejects on everything else
Resolves(o) == o.response /\ o.status >= 200 /\ o.status <= 299

\* expires_in values the token endpoint answers with
ExpiresInValues == {RefreshMargin, RefreshMargin + 1}

\* ------------------------------------------------------------------------
\* Authenticated request executor
\* ------------------------------------------------------------------------
Event(e, o, n) == [e |-> e, response |-> o.response, status |-> o.status, n |-> n]

\* no front-end request has been refused
NoRefusal == [via |-> "", op |-> "", reply |-> ""]

NoResult == [kind |-> "none", at |-> 0, response |-> FALSE, status |-> 0]
\* the rejection of authed carries the error object thrown at log position at
Thrown(kind, at, o) == [kind |-> kind, at |-> at, response |-> o.response, status |-> o.status]

NoCfg == [method |-> "", url |-> <<>>, hasData |-> FALSE, data |-> <<>>]

\* body argument of resetAlert: absent, or an object with its own fields
NoBody == [present |-> FALSE, obj |-> <<>>]
Body(obj) == [present |-> TRUE, obj |-> obj]

\* the arguments of the operation that a claim reads back
NoArgs == [dryRun |-> Undefined, body |-> NoBody]

IdleCall ==
  [pc |-> "idle", attempt |-> 0, delay |-> 0, cfg |-> NoCfg, via |-> "", op |-> "",
   args |-> NoArgs, log |-> <<>>, result |-> NoResult]

\* status === 429 || (status >= 500 && status <= 599)
IsTransientFrom400(o) == o.response /\ o.status >= 400 /\ o.status <= 599

IsTransient(o) == o.response /\ (o.status = 429 \/ (o.status >= 500 /\ o.status <= 599))

\* status === 401
IsUnauthorized(o) == o.response /\ o.status = 401

\* Math.min(5000, 250 * 2 ** attempt)
BackoffDelayLinear(attempt) == Min(BackoffCap, BackoffBase * (attempt + 1))

BackoffDelay(attempt) == Min(BackoffCap, BackoffBase * Pow2(attempt))

\* The synchronous head of doReq: build the Authorization header from
\* this.token!.access_token and hand the request to the transport.  With no
\* token held the property read throws inside the try block; the catch finds
\* no status and rethrows.
SendReqCaptured(r, tok) ==
  LET sent == {i \in 1..Len(r.log) : r.log[i].e = "send"}
      bearer == IF sent = {} THEN tok.access_token
                ELSE r.log[CHOOSE i \in sent : \A j \in sent : j <= i].n
  IN IF tok.held
     THEN [r EXCEPT !.pc = "req",
                    !.log = Append(@, Event("send", NoResponse, bearer))]
     ELSE [r EXCEPT !.pc = "failed",
                    !.log = Append(@, Event("typeerror", NoResponse, 0)),
                    !.result = Thrown("typeerror", Len(r.log) + 1, NoResponse)]

SendReq(r, tok) ==
  IF tok.held
  THEN [r EXCEPT !.pc = "req",
                 !.log = Append(@, Event("send", NoResponse, tok.access_token))]
  ELSE [r EXCEPT !.pc = "failed",
                 !.log = Append(@, Event("typeerror", NoResponse, 0)),
                 !.result = Thrown("typeerror", Len(r.log) + 1, NoResponse)]

\* authed(cfg) up to its first await
AuthedStart(c, cfg, via, op, args) ==
  LET r == [IdleCall EXCEPT !.cfg = cfg, !.via = via, !.op = op, !.args = args]
  IN /\ calls[c].pc = "idle"
     /\ calls' = [calls EXCEPT ![c] =
          IF tokenFresh(token, clock)
          THEN SendReq([r EXCEPT !.log = <<Event("fresh", NoResponse, 0)>>], token)
          ELSE [r EXCEPT !.pc = "fetch",
                         !.log = <<Event("acquire", NoResponse, 0)>>]]

\* fetchToken resolves: its continuation after await axios.post replaces the
\* token and returns.  The caller that awaits fetchToken goes on in a later
\* continuation, and other continuations may run between the two.
FetchTokenOkFirstWins(c) ==
  /\ calls[c].pc \in {"fetch", "refresh"}
  /\ \E e \in ExpiresInValues :
       /\ token' = IF token.held THEN token ELSE NewToken(issued + 1, e, clock)
       /\ issued' = issued + 1
       /\ calls' = [calls EXCEPT ![c] =
            [@ EXCEPT !.pc = IF @ = "fetch" THEN "fetched" ELSE "refreshed",
                      !.log = Append(@, Event("token", NoResponse, issued + 1))]]
  /\ UNCHANGED <<runscriptStyle, clock, readOnlyEnv, refused, parts, dfOut, freshOut>>

FetchTokenOk(c) ==
  /\ calls[c].pc \in {"fetch", "refresh"}
  /\ \E e \in ExpiresInValues :
       /\ token' = NewToken(issued + 1, e, clock)
       /\ issued' = issued + 1
       /\ calls' = [calls EXCEPT ![c] =
            [@ EXCEPT !.pc = IF @ = "fetch" THEN "fetched" ELSE "refreshed",
                      !.log = Append(@, Event("token", NoResponse, issued + 1))]]
  /\ UNCHANGED <<runscriptStyle, clock, readOnlyEnv, refused, parts, dfOut, freshOut>>

\* the continuation of await this.fetchToken(): doReq(0) in authed, and
\* doReq(attempt + 1) in the catch block after a forced refresh; the request
\* is built from the token held now
AfterFetchToken(c) ==
  /\ calls[c].pc \in {"fetched", "refreshed"}
  /\ calls' = [calls EXCEPT ![c] =
       SendReq([@ EXCEPT !.attempt = IF calls[c].pc = "refreshed" THEN @ + 1 ELSE @],
               token)]
  /\ UNCHANGED <<token, runscriptStyle, clock, issued, readOnlyEnv, refused,
                 parts, dfOut, freshOut>>

\* fetchToken rejects (network error or non-2xx from /oauth/token): nothing
\* catches it, so authed rejects with it.
FetchTokenFailClears(c) ==
  /\ calls[c].pc \in {"fetch", "refresh"}
  /\ \E o \in {NoResponse, HttpResponse(401), HttpResponse(500)} :
       calls' = [calls EXCEPT ![c] =
         [@ EXCEPT !.pc = "failed",
                   !.log = Append(@, Event("tokenfail", o, 0)),
                   !.result = Thrown("error", Len(calls[c].log) + 1, o)]]
  /\ token' = NoToken
  /\ UNCHANGED <<runscriptStyle, clock, issued, readOnlyEnv, refused,
                 parts, dfOut, freshOut>>

FetchTokenFailGoesOn(c) ==
  /\ calls[c].pc \in {"fetch", "refresh"}
  /\ \E o \in {NoResponse, HttpResponse(401), HttpResponse(500)} :
       calls' = [calls EXCEPT ![c] =
         SendReq([@ EXCEPT !.attempt = IF calls[c].pc = "refresh" THEN @ + 1 ELSE @,
                           !.log = Append(@, Event("tokenfail", o, 0))],
                 token)]
  /\ UNCHANGED <<token, runscriptStyle, clock, issued, readOnlyEnv, refused,
                 parts, dfOut, freshOut>>

FetchTokenFail(c) ==
  /\ calls[c].pc \in {"fetch", "refresh"}
  /\ \E o \in {NoResponse, HttpResponse(401), HttpResponse(500)} :
       calls' = [calls EXCEPT ![c] =
         [@ EXCEPT !.pc = "failed",
                   !.log = Append(@, Event("tokenfail", o, 0)),
                   !.result = Thrown("error", Len(calls[c].log) + 1, o)]]
  /\ UNCHANGED <<token, runscriptStyle, clock, issued, readOnlyEnv, refused,
                 parts, dfOut, freshOut>>

\* The catch block of doReq, applied to the failure o of attempt r.attempt
CatchRetryInclusive(r, o) ==
  LET logged == [r EXCEPT !.log = Append(@, Event("err", o, r.attempt))]
  IN IF IsTransient(o) /\ r.attempt <= RetryLimit
     THEN [logged EXCEPT !.pc = "sleep", !.delay = BackoffDelay(r.attempt),
                         !.log = Append(@, Event("wait", NoResponse, BackoffDelay(r.attempt)))]
     ELSE IF IsUnauthorized(o) /\ r.attempt < ReauthLimit
     THEN [logged EXCEPT !.pc = "refresh",
                         !.log = Append(@, Event("acquire", NoResponse, 0))]
     ELSE [logged EXCEPT !.pc = "failed",
                         !.result = Thrown("error", Len(r.log) + 1, o)]

CatchReauthAsBackoff(r, o) ==
  LET logged == [r EXCEPT !.log = Append(@, Event("err", o, r.attempt))]
  IN IF (IsTransient(o) /\ r.attempt < RetryLimit)
        \/ (IsUnauthorized(o) /\ r.attempt < ReauthLimit)
     THEN [logged EXCEPT !.pc = "sleep", !.delay = BackoffDelay(r.attempt),
                         !.log = Append(@, Event("wait", NoResponse, BackoffDelay(r.attempt)))]
     ELSE [logged EXCEPT !.pc = "failed",
                         !.result = Thrown("error", Len(r.log) + 1, o)]

CatchReauthNoAwait(r, o) ==
  LET logged == [r EXCEPT !.log = Append(@, Event("err", o, r.attempt))]
  IN IF IsTransient(o) /\ r.attempt < RetryLimit
     THEN [logged EXCEPT !.pc = "sleep", !.delay = BackoffDelay(r.attempt),
                         !.log = Append(@, Event("wait", NoResponse, BackoffDelay(r.attempt)))]
     ELSE IF IsUnauthorized(o) /\ r.attempt < ReauthLimit
     THEN [logged EXCEPT !.pc = "req", !.attempt = @ + 1,
                         !.log = Append(Append(@, Event("acquire", NoResponse, 0)),
                                        Event("send", NoResponse, 0))]
     ELSE [logged EXCEPT !.pc = "failed",
                         !.result = Thrown("error", Len(r.log) + 1, o)]

CatchThrowsFirst(r, o) ==
  LET logged == [r EXCEPT !.log = Append(@, Event("err", o, r.attempt))]
      first == CHOOSE i \in 1..Len(logged.log) :
                 /\ logged.log[i].e = "err"
                 /\ \A j \in 1..(i - 1) : logged.log[j].e # "err"
  IN IF IsTransient(o) /\ r.attempt < RetryLimit
     THEN [logged EXCEPT !.pc = "sleep", !.delay = BackoffDelay(r.attempt),
                         !.log = Append(@, Event("wait", NoResponse, BackoffDelay(r.attempt)))]
     ELSE IF IsUnauthorized(o) /\ r.attempt < ReauthLimit
     THEN [logged EXCEPT !.pc = "refresh",
                         !.log = Append(@, Event("acquire", NoResponse, 0))]
     ELSE [logged EXCEPT !.pc = "failed",
                         !.result = [kind |-> "error", at |-> first,
                                     response |-> logged.log[first].response,
                                     status |-> logged.log[first].status]]

CatchReauthTwice(r, o) ==
  LET logged == [r EXCEPT !.log = Append(@, Event("err", o, r.attempt))]
  IN IF IsTransient(o) /\ r.attempt < RetryLimit
     THEN [logged EXCEPT !.pc = "sleep", !.delay = BackoffDelay(r.attempt),
                         !.log = Append(@, Event("wait", NoResponse, BackoffDelay(r.attempt)))]
     ELSE IF IsUnauthorized(o) /\ r.attempt <= ReauthLimit
     THEN [logged EXCEPT !.pc = "refresh",
                         !.log = Append(@, Event("acquire", NoResponse, 0))]
     ELSE [logged EXCEPT !.pc = "failed",
                         !.result = Thrown("error", Len(r.log) + 1, o)]

Catch(r, o) ==
  LET logged == [r EXCEPT !.log = Append(@, Event("err", o, r.attempt))]
  IN IF IsTransient(o) /\ r.attempt < RetryLimit
     THEN [logged EXCEPT !.pc = "sleep", !.delay = BackoffDelay(r.attempt),
                         !.log = Append(@, Event("wait", NoResponse, BackoffDelay(r.attempt)))]
     ELSE IF IsUnauthorized(o) /\ r.attempt < ReauthLimit
     THEN [logged EXCEPT !.pc = "refresh",
                         !.log = Append(@, Event("acquire", NoResponse, 0))]
     ELSE [logged EXCEPT !.pc = "failed",
                         !.result = Thrown("error", Len(r.log) + 1, o)]

\* this.http.request settles
Respond(c, o) ==
  /\ calls[c].pc = "req"
  /\ calls' = [calls EXCEPT ![c] =
       IF Resolves(o)
       THEN [@ EXCEPT !.pc = "done",
                      !.log = Append(@, Event("ok", o, calls[c].attempt)),
                      !.result = Thrown("data", Len(calls[c].log) + 1, o)]
       ELSE Catch(calls[c], o)]
  /\ UNCHANGED <<token, runscriptStyle, clock, issued, readOnlyEnv, refused,
                 parts, dfOut, freshOut>>

\* the backoff timer fires: doReq(attempt + 1)
WakeRechecks(c) ==
  /\ calls[c].pc = "sleep"
  /\ calls' = [calls EXCEPT ![c] =
       IF tokenFresh(token, clock)
       THEN SendReq([@ EXCEPT !.attempt = @ + 1, !.delay = 0], token)
       ELSE [@ EXCEPT !.attempt = @ + 1, !.delay = 0, !.pc = "fetch",
                      !.log = Append(@, Event("acquire", NoResponse, 0))]]
  /\ UNCHANGED <<token, runscriptStyle, clock, issued, readOnlyEnv, refused,
                 parts, dfOut, freshOut>>

WakeDropped(c) ==
  /\ calls[c].pc = "sleep"
  /\ calls[c].attempt + 1 < RetryLimit
  /\ calls' = [calls EXCEPT ![c] =
       SendReq([@ EXCEPT !.attempt = @ + 1, !.delay = 0], token)]
  /\ UNCHANGED <<token, runscriptStyle, clock, issued, readOnlyEnv, refused,
                 parts, dfOut, freshOut>>

Wake(c) ==
  /\ calls[c].pc = "sleep"
  /\ calls' = [calls EXCEPT ![c] =
       SendReq([@ EXCEPT !.attempt = @ + 1, !.delay = 0], token)]
  /\ UNCHANGED <<token, runscriptStyle, clock, issued, readOnlyEnv, refused,
                 parts, dfOut, freshOut>>

\* time passes, half a second at a time, up to limit seconds
Advance(limit) ==
  /\ clock + (MsPerSecond \div 2) <= limit * MsPerSecond
  /\ clock' = clock + (MsPerSecond \div 2)
  /\ UNCHANGED <<token, runscriptStyle, issued, calls, readOnlyEnv, refused,
                 parts, dfOut, freshOut>>

Tick == Advance(MaxNow)


\* ------------------------------------------------------------------------
\* Resource operations
\* ------------------------------------------------------------------------
NoData == <<>>
Get(url) == [method |-> "GET", url |-> url, hasData |-> FALSE, data |-> NoData]

PathOrganizations == <<"/", "v", "2", "/", "o", "r", "g", "a", "n", "i", "z", "a", "t", "i", "o", "n", "s">>

\* listOrganizations()
listOrganizations(c, via) ==
  /\ AuthedStart(c, Get(PathOrganizations), via, "listOrganizations", NoArgs)
  /\ UNCHANGED <<token, runscriptStyle, clock, issued, readOnlyEnv, refused,
                 parts, dfOut, freshOut>>

\* the characters URLSearchParams leaves alone
FormSafe == (Unreserved \ {"!", "~", "'", "(", ")"})

\* a space is written +, any other character as its percent-code
FormCode(c) == IF c = " " THEN <<"+">> ELSE PercentCode(c)

FormEncode(str) ==
  Concat([i \in 1..Len(str) |->
            IF str[i] \in FormSafe THEN <<str[i]>> ELSE FormCode(str[i])])

\* URLSearchParams.prototype.toString for the pairs q, in insertion order
QueryString(q) ==
  Join([i \in 1..Len(q) |-> FormEncode(q[i][1]) \o <<"=">> \o FormEncode(q[i][2])], <<"&">>)

\* q.set(key, value) when v is truthy
SetIf(v, key) == IF Truthy(v) THEN <<(<<key, StringOf(v)>>)>> ELSE <<>>

WithQuery(path, q) ==
  IF QueryString(q) # <<>> THEN path \o <<"?">> \o QueryString(q) ELSE path

KeyPageSize == <<"p", "a", "g", "e", "S", "i", "z", "e">>
KeyCursor == <<"c", "u", "r", "s", "o", "r">>
KeyDf == <<"d", "f">>
KeyStatus == <<"s", "t", "a", "t", "u", "s">>
PathDevices == <<"/", "v", "2", "/", "d", "e", "v", "i", "c", "e", "s">>
PathAlerts == <<"/", "v", "2", "/", "a", "l", "e", "r", "t", "s">>
PathAlert == <<"/", "v", "2", "/", "a", "l", "e", "r", "t", "/">>
PathDevice == <<"/", "v", "2", "/", "d", "e", "v", "i", "c", "e", "/">>
SuffixReset == <<"/", "r", "e", "s", "e", "t">>
SuffixActions == <<"/", "a", "c", "t", "i", "o", "n", "s">>
SuffixRunScript == <<"/", "r", "u", "n", "/", "s", "c", "r", "i", "p", "t">>
Slash == <<"/">>

\* params?.name

\* obj.name, undefined when obj has no such key
Field(obj, name) == IF name \in DOMAIN obj THEN obj[name] ELSE Undefined

\* params?.name
Param(params, name) == IF params.present THEN Field(params.obj, name) ELSE Undefined
NoParams == [present |-> FALSE, obj |-> <<>>]
Params(obj) == [present |-> TRUE, obj |-> obj]

\* listDevices(params)
listDevices(c, via, params) ==
  /\ AuthedStart(c,
       Get(WithQuery(PathDevices,
             SetIf(Param(params, "pageSize"), KeyPageSize)
               \o SetIf(Param(params, "cursor"), KeyCursor)
               \o SetIf(Param(params, "df"), KeyDf))),
       via, "listDevices", NoArgs)
  /\ UNCHANGED <<token, runscriptStyle, clock, issued, readOnlyEnv, refused,
                 parts, dfOut, freshOut>>

\* getDevice(deviceId)
getDevice(c, via, deviceId) ==
  /\ AuthedStart(c, Get(PathDevices \o Slash \o StringOf(deviceId)), via, "getDevice", NoArgs)
  /\ UNCHANGED <<token, runscriptStyle, clock, issued, readOnlyEnv, refused,
                 parts, dfOut, freshOut>>

\* listAlerts(params)
listAlerts(c, via, params) ==
  /\ AuthedStart(c,
       Get(WithQuery(PathAlerts,
             SetIf(Param(params, "status"), KeyStatus)
               \o SetIf(Param(params, "pageSize"), KeyPageSize)
               \o SetIf(Param(params, "cursor"), KeyCursor))),
       via, "listAlerts", NoArgs)
  /\ UNCHANGED <<token, runscriptStyle, clock, issued, readOnlyEnv, refused,
                 parts, dfOut, freshOut>>


\* the request resetAlert(uid, body) builds
resetAlertCfg(uid, body) ==
  IF body.present /\ (Truthy(Field(body.obj, "activity")) \/ Truthy(Field(body.obj, "note")))
  THEN [method |-> "POST", url |-> PathAlert \o encodeURIComponent(uid) \o SuffixReset,
        hasData |-> TRUE, data |-> body.obj]
  ELSE [method |-> "DELETE", url |-> PathAlert \o encodeURIComponent(uid),
        hasData |-> FALSE, data |-> NoData]

\* resetAlert(uid, body)
resetAlert(c, via, uid, body) ==
  /\ AuthedStart(c, resetAlertCfg(uid, body), via, "resetAlert",
                 [NoArgs EXCEPT !.body = body])
  /\ UNCHANGED <<token, runscriptStyle, clock, issued, readOnlyEnv, refused,
                 parts, dfOut, freshOut>>

\* the request runScript(deviceId, scriptId, params, dryRun) builds under style
runScriptCfgTypeAlways(style, deviceId, scriptId, params, dryRun) ==
  [method |-> "POST",
   url |-> IF style = "actions"
           THEN PathDevices \o Slash \o StringOf(deviceId) \o SuffixActions
           ELSE PathDevice \o StringOf(deviceId) \o SuffixRunScript,
   hasData |-> TRUE,
   data |-> [type |-> "RUN_SCRIPT", scriptId |-> scriptId,
             parameters |-> OrElse(params, Obj(<<>>)), dryRun |-> Truthy(dryRun)]]

runScriptCfg(style, deviceId, scriptId, params, dryRun) ==
  IF style = "actions"
  THEN [method |-> "POST",
        url |-> PathDevices \o Slash \o StringOf(deviceId) \o SuffixActions,
        hasData |-> TRUE,
        data |-> [type |-> "RUN_SCRIPT", scriptId |-> scriptId,
                  parameters |-> OrElse(params, Obj(<<>>)), dryRun |-> Truthy(dryRun)]]
  ELSE [method |-> "POST",
        url |-> PathDevice \o StringOf(deviceId) \o SuffixRunScript,
        hasData |-> TRUE,
        data |-> [scriptId |-> scriptId,
                  parameters |-> OrElse(params, Obj(<<>>)), dryRun |-> Truthy(dryRun)]]

\* runScript(deviceId, scriptId, params, dryRun)
runScript(c, via, deviceId, scriptId, params, dryRun) ==
  /\ AuthedStart(c, runScriptCfg(runscriptStyle, deviceId, scriptId, params, dryRun),
                 via, "runScript", [NoArgs EXCEPT !.dryRun = dryRun])
  /\ UNCHANGED <<token, runscriptStyle, clock, issued, readOnlyEnv, refused,
                 parts, dfOut, freshOut>>

\* the constructor's opts.runscriptStyle ?? 'actions'
ConstructStyle(opt) == IF opt = "undefined" THEN "actions" ELSE opt

\* ------------------------------------------------------------------------
\* The executor under concurrent calls
\* ------------------------------------------------------------------------
NoDf == [done |-> FALSE, t |-> "undefined", s |-> <<>>]
NoFresh == [checked |-> FALSE, at |-> 0, fresh |-> FALSE]

Init ==
  /\ token = NoToken
  /\ runscriptStyle = "actions"
  /\ clock = 0
  /\ issued = 0
  /\ calls = [c \in Calls |-> IdleCall]
  /\ readOnlyEnv = [set |-> FALSE, s |-> <<>>]
  /\ refused = NoRefusal
  /\ parts = <<>>
  /\ dfOut = NoDf
  /\ freshOut = NoFresh

Invoke == \E c \in Calls : listOrganizations(c, "client")
TokenGranted == \E c \in Calls : FetchTokenOk(c)
TokenReturned == \E c \in Calls : AfterFetchToken(c)
TokenRefused == \E c \in Calls : FetchTokenFail(c)
Settle == \E c \in Calls : \E o \in CoreOutcomes : Respond(c, o)
TimerFires == \E c \in Calls : Wake(c)

Next ==
  Invoke \/ TokenGranted \/ TokenReturned \/ TokenRefused \/ Settle \/ TimerFires \/ Tick

Spec == Init /\ [][Next]_vars

\* ------------------------------------------------------------------------
\* The executor, one call after the other, against every answer of the remote
\* ------------------------------------------------------------------------
\* the caller has taken the outcome of the call; the next call may begin
Return(c) ==
  /\ calls[c].pc \in {"done", "failed"}
  /\ issued + 2 <= MaxIssued
  /\ calls' = [calls EXCEPT ![c] = IdleCall]
  /\ UNCHANGED <<token, runscriptStyle, clock, issued, readOnlyEnv, refused,
                 parts, dfOut, freshOut>>

InvokeSolo == listOrganizations(1, "client")
TokenGrantedSolo == FetchTokenOk(1)
TokenReturnedSolo == AfterFetchToken(1)
TokenRefusedSolo == FetchTokenFail(1)
SettleSolo == \E o \in Outcomes : Respond(1, o)
TimerFiresSolo == Wake(1)
ReturnSolo == Return(1)

NextSolo ==
  InvokeSolo \/ TokenGrantedSolo \/ TokenReturnedSolo \/ TokenRefusedSolo
    \/ SettleSolo \/ TimerFiresSolo
    \/ ReturnSolo \/ Tick

SpecSolo == Init /\ [][NextSolo]_vars


\* ------------------------------------------------------------------------
\* Reading a call's history
\* ------------------------------------------------------------------------
IsKind(kinds, ev) == ev.e \in kinds
Only(log, kinds) == SelectSeq(log, LAMBDA ev : IsKind(kinds, ev))

Responses(log) == Only(log, {"ok", "err"})
Attempts(log) == Len(Only(log, {"send"}))
Acquisitions(log) == Len(Only(log, {"acquire"}))
Waits(log) == [i \in 1..Len(Only(log, {"wait"})) |-> Only(log, {"wait"})[i].n]
StatusesOf(log) == [i \in 1..Len(Responses(log)) |-> Responses(log)[i].status]
KindsOf(log) == [i \in 1..Len(log) |-> log[i].e]

StartedFresh(log) == Len(log) > 0 /\ log[1].e = "fresh"
\* acquisitions other than the one made before attempt 0
ForcedRefreshes(log) == Cardinality({i \in 2..Len(log) : log[i].e = "acquire"})

\* the statuses the retry policy names: 429 and 500..599
Is429or5xx(ev) == ev.response /\ (ev.status = 429 \/ ev.status \in 500..599)
Is401(ev) == ev.response /\ ev.status = 401
\* a 4xx other than 401 and 429, or a failure with no status at all
IsOtherFailure(ev) ==
  ~ev.response \/ (ev.status \in 400..499 /\ ev.status \notin {401, 429})

AllOf(seq, P(_)) == \A i \in 1..Len(seq) : P(seq[i])

SameError(result, log, at) ==
  /\ result.kind = "error"
  /\ result.at = at
  /\ result.response = log[at].response
  /\ result.status = log[at].status

\* ------------------------------------------------------------------------
\* C1: a call that starts with a fresh token and gets 429 or 5xx on every
\* attempt waits 250, 500, 1000, 2000 ms between attempts, never more than
\* 5000 ms, and fails with the fifth attempt's error, with no wait after it.
\* ------------------------------------------------------------------------
C1_ExhaustedBackoff ==
  \A c \in Calls :
    LET log == calls[c].log
        r == Responses(log)
    IN (StartedFresh(log) /\ AllOf(r, Is429or5xx)) =>
         /\ Len(r) <= 5
         /\ Waits(log) = SubSeq(<<250, 500, 1000, 2000>>, 1, Min(Len(r), 4))
         /\ \A i \in 1..Len(Waits(log)) : Waits(log)[i] <= 5000
         /\ Len(r) < 5 => calls[c].pc \in {"req", "sleep"}
         /\ Len(r) = 5 =>
              /\ calls[c].pc = "failed"
              /\ Attempts(log) = 5
              /\ log[Len(log)].e = "err"
              /\ SameError(calls[c].result, log, Len(log))

C1_Witness ==
  \E c \in Calls :
    /\ calls[c].pc = "failed"
    /\ StartedFresh(calls[c].log)
    /\ StatusesOf(calls[c].log) = <<429, 429, 429, 429, 429>>
    /\ Waits(calls[c].log) = <<250, 500, 1000, 2000>>

\* ------------------------------------------------------------------------
\* C2: a call answered 429/5xx k times (k in 0..4) and then with success
\* returns the body after k+1 attempts, the i-th wait being
\* min(5000, 250 * 2^i) ms.
\* ------------------------------------------------------------------------
C2_RetryThenSuccess ==
  \A c \in Calls :
    LET log == calls[c].log
        r == Responses(log)
        k == Len(r) - 1
    IN (Len(r) >= 1 /\ r[Len(r)].e = "ok" /\ AllOf(SubSeq(r, 1, k), Is429or5xx)) =>
         /\ k \in 0..4
         /\ calls[c].pc = "done"
         /\ calls[c].result.kind = "data"
         /\ calls[c].result.at = Len(log)
         /\ Attempts(log) = k + 1
         /\ Waits(log) = [i \in 1..k |-> Min(5000, 250 * Pow2(i - 1))]

C2_Witness ==
  \E c \in Calls :
    /\ calls[c].pc = "done"
    /\ StatusesOf(calls[c].log) = <<500, 500, 200>>
    /\ Attempts(calls[c].log) = 3
    /\ Waits(calls[c].log) = <<250, 500>>

\* ------------------------------------------------------------------------
\* C3: a call that starts fresh and is answered 401 then 200 acquires a
\* token exactly once, after the 401 and before the retry, waits for no
\* backoff, makes two attempts and succeeds on the second.
\* ------------------------------------------------------------------------
C3_ReauthOnce ==
  \A c \in Calls :
    LET log == calls[c].log
    IN (StartedFresh(log) /\ StatusesOf(log) = <<401, 200>>) =>
         /\ calls[c].pc = "done"
         /\ calls[c].result.kind = "data"
         /\ Acquisitions(log) = 1
         /\ Attempts(log) = 2
         /\ Waits(log) = <<>>
         /\ KindsOf(log) = <<"fresh", "send", "err", "acquire", "token", "send", "ok">>

C3_Witness ==
  \E c \in Calls :
    /\ calls[c].pc = "done"
    /\ StartedFresh(calls[c].log)
    /\ StatusesOf(calls[c].log) = <<401, 200>>

\* ------------------------------------------------------------------------
\* C4: the first 401 of a call is followed by a forced token refresh, however
\* many 429/5xx retries came before it.
\* ------------------------------------------------------------------------
C4_ReauthIndependentOfBackoff ==
  \A c \in Calls :
    LET log == calls[c].log
    IN \A j \in 1..Len(log) :
         (/\ log[j].e = "err"
          /\ Is401(log[j])
          /\ \A i \in 1..(j - 1) : log[i].e = "err" => Is429or5xx(log[i])) =>
           (j < Len(log) /\ log[j + 1].e = "acquire")

\* ------------------------------------------------------------------------
\* C5: with 401 on every attempt and token acquisition succeeding, a call
\* makes two attempts and one forced refresh and fails with the second 401;
\* no call ever makes a second forced refresh.
\* ------------------------------------------------------------------------
C5_InvalidCredentials ==
  \A c \in Calls :
    LET log == calls[c].log
        r == Responses(log)
    IN /\ ForcedRefreshes(log) <= 1
       /\ (Len(r) >= 1 /\ AllOf(r, Is401) /\ Only(log, {"tokenfail"}) = <<>>) =>
            /\ Len(r) <= 2
            /\ Len(r) = 1 => calls[c].pc \in {"refresh", "refreshed", "req"}
            /\ Len(r) = 2 =>
                 /\ calls[c].pc = "failed"
                 /\ Attempts(log) = 2
                 /\ ForcedRefreshes(log) = 1
                 /\ log[Len(log)].e = "err"
                 /\ SameError(calls[c].result, log, Len(log))
                 /\ calls[c].result.status = 401

C5_Witness ==
  \E c \in Calls :
    /\ calls[c].pc = "failed"
    /\ StatusesOf(calls[c].log) = <<401, 401>>
    /\ ForcedRefreshes(calls[c].log) = 1

\* ------------------------------------------------------------------------
\* C6: a failure with a 4xx status other than 401 and 429, or with no status,
\* is the last thing the call does, and the caller gets that very error.
\* ------------------------------------------------------------------------
C6_OtherFailuresSurface ==
  \A c \in Calls :
    LET log == calls[c].log
    IN \A j \in 1..Len(log) :
         (log[j].e = "err" /\ IsOtherFailure(log[j])) =>
           /\ j = Len(log)
           /\ calls[c].pc = "failed"
           /\ SameError(calls[c].result, log, j)

C6_Witness ==
  \E c \in Calls :
    LET log == calls[c].log
    IN /\ calls[c].pc = "failed"
       /\ Len(log) > 0
       /\ log[Len(log)].e = "err"
       /\ log[Len(log)].response
       /\ log[Len(log)].status = 404
       /\ Attempts(log) = 2


\* ------------------------------------------------------------------------
\* tokenFresh on its own: any token, any time
\* ------------------------------------------------------------------------
InitFresh ==
  /\ runscriptStyle = "actions"
  /\ issued = 0
  /\ calls = [c \in Calls |-> IdleCall]
  /\ readOnlyEnv = [set |-> FALSE, s |-> <<>>]
  /\ refused = NoRefusal
  /\ parts = <<>>
  /\ dfOut = NoDf
  /\ freshOut = NoFresh
  /\ \/ token = NoToken /\ clock = 0
     \/ \E t \in 0..MaxObtainedAt : \E e \in (RefreshMargin - 2)..MaxExpiresIn :
          /\ token = NewToken(1, e, t * MsPerSecond)
          /\ clock = t * MsPerSecond

\* a call of this.tokenFresh()
CheckFresh ==
  /\ freshOut' = [checked |-> TRUE, at |-> clock, fresh |-> tokenFresh(token, clock)]
  /\ UNCHANGED <<token, runscriptStyle, clock, issued, calls, readOnlyEnv, refused,
                 parts, dfOut>>

TickFresh == Advance(MaxObtainedAt + MaxExpiresIn - RefreshMargin + 1)

NextFresh == CheckFresh \/ TickFresh

SpecFresh == InitFresh /\ [][NextFresh]_vars

\* ------------------------------------------------------------------------
\* C8: tokenFresh is false with no token held; for a token acquired at second
\* T with expiresIn E it is true at every second before T + E - 60 and false
\* at T + E - 60 and after, so never true when E <= 60.
\* ------------------------------------------------------------------------
C8_FreshBeforeMargin ==
  freshOut.checked =>
    LET sec == freshOut.at \div 1000
        T == token.obtained_at
        E == token.expires_in
    IN /\ ~token.held => ~freshOut.fresh
       /\ (token.held /\ sec + 60 < T + E) => freshOut.fresh
       /\ (token.held /\ sec + 60 >= T + E) => ~freshOut.fresh
       /\ (token.held /\ E <= 60) => ~freshOut.fresh

C8_Witness ==
  /\ freshOut.checked
  /\ token.held
  /\ ~freshOut.fresh
  /\ freshOut.at \div 1000 = token.obtained_at + token.expires_in - 60
  /\ token.expires_in > 60

\* ------------------------------------------------------------------------
\* encodeDf on its own: any sequence of clauses
\* ------------------------------------------------------------------------
ClauseChars == {"a", " ", "%", "="}
ClauseStrings == UNION {[1..k -> ClauseChars] : k \in 0..MaxClauseLen}
PartValues == {Undefined, False} \cup {Str(str) : str \in ClauseStrings}

InitDf ==
  /\ token = NoToken
  /\ runscriptStyle = "actions"
  /\ clock = 0
  /\ issued = 0
  /\ calls = [c \in Calls |-> IdleCall]
  /\ readOnlyEnv = [set |-> FALSE, s |-> <<>>]
  /\ refused = NoRefusal
  /\ parts \in UNION {[1..k -> PartValues] : k \in 0..MaxParts}
  /\ dfOut = NoDf
  /\ freshOut = NoFresh

\* a call of encodeDf(parts)
EncodeDf ==
  /\ ~dfOut.done
  /\ dfOut' = [done |-> TRUE, t |-> encodeDf(parts).t, s |-> encodeDf(parts).s]
  /\ UNCHANGED <<token, runscriptStyle, clock, issued, calls, readOnlyEnv, refused,
                 parts, freshOut>>

NextDf == EncodeDf

SpecDf == InitDf /\ [][NextDf]_vars

\* a clause that is there: a non-empty string
Present(v) == v.t = "string" /\ Len(v.s) > 0

RECURSIVE PercentDecode(_)
\* the string a percent-encoded string stands for
PercentDecode(str) ==
  IF str = <<>> THEN <<>>
  ELSE IF str[1] = "%" /\ Len(str) >= 3
  THEN LET code == <<str[2], str[3]>>
           ch == CASE code = <<"2", "0">> -> " "
                   [] code = <<"2", "5">> -> "%"
                   [] code = <<"3", "D">> -> "="
                   [] code = <<"2", "F">> -> "/"
                   [] code = <<"2", "C">> -> ","
                   [] OTHER -> "?"
       IN <<ch>> \o PercentDecode(SubSeq(str, 4, Len(str)))
  ELSE <<str[1]>> \o PercentDecode(Tail(str))

RECURSIVE JoinedPresent(_, _)
\* the present clauses of ps, in order, with " AND " between neighbours;
\* started says whether a present clause has been written already
JoinedPresent(ps, started) ==
  IF ps = <<>> THEN <<>>
  ELSE IF ~Present(ps[1]) THEN JoinedPresent(Tail(ps), started)
  ELSE (IF started THEN <<" ", "A", "N", "D", " ">> ELSE <<>>)
         \o ps[1].s \o JoinedPresent(Tail(ps), TRUE)

\* ------------------------------------------------------------------------
\* C9: encodeDf returns absent exactly when every clause is absent; otherwise
\* its result, percent-decoded, is the present clauses joined by " AND " in
\* input order, absent clauses leaving no trace.
\* ------------------------------------------------------------------------
C9_EncodeDf ==
  dfOut.done =>
    /\ dfOut.t \in {"undefined", "string"}
    /\ dfOut.t = "undefined" <=> (\A i \in 1..Len(parts) : ~Present(parts[i]))
    /\ dfOut.t = "string" => PercentDecode(dfOut.s) = JoinedPresent(parts, FALSE)

C9_Witness ==
  /\ dfOut.done
  /\ Len(parts) = 3
  /\ Present(parts[1])
  /\ ~Present(parts[2])
  /\ Present(parts[3])
  /\ parts[1].s = <<" ">>
  /\ dfOut.t = "string"
  /\ Len(dfOut.s) > Len(parts[1].s) + 5 + Len(parts[3].s)


\* ------------------------------------------------------------------------
\* Front ends: REST routes and tool handlers
\* ------------------------------------------------------------------------
TextTrue == <<"t", "r", "u", "e">>
TextFalse == <<"f", "a", "l", "s", "e">>

\* process.env.NAME ?? fallback
EnvOr(env, fallback) == IF env.set THEN env.s ELSE fallback
Unset == [set |-> FALSE, s |-> <<>>]
SetTo(str) == [set |-> TRUE, s |-> str]

\* const READ_ONLY = String(process.env.READ_ONLY ?? "true").toLowerCase() !== "false"
RestReadOnlyDefaultOff == toLowerCase(EnvOr(readOnlyEnv, TextFalse)) # TextFalse

RestReadOnly == toLowerCase(EnvOr(readOnlyEnv, TextTrue)) # TextFalse

\* the test of the tool server's assertWritable
McpReadOnly == toLowerCase(EnvOr(readOnlyEnv, TextTrue)) # TextFalse

\* assertWritable() throws: the handler answers at once and calls nothing
Refuse(via, op, reply) ==
  /\ refused' = [via |-> via, op |-> op, reply |-> reply]
  /\ UNCHANGED <<token, runscriptStyle, clock, issued, calls, readOnlyEnv,
                 parts, dfOut, freshOut>>

RECURSIVE SplitOn(_, _)
\* String.prototype.split on a one-character separator
SplitOn(str, ch) ==
  IF \A i \in 1..Len(str) : str[i] # ch THEN <<str>>
  ELSE LET i == CHOOSE k \in 1..Len(str) :
                  str[k] = ch /\ \A j \in 1..(k - 1) : str[j] # ch
       IN <<SubSeq(str, 1, i - 1)>> \o SplitOn(SubSeq(str, i + 1, Len(str)), ch)

NonEmpty(str) == str # <<>>
Comma == <<",">>

\* the four filter clauses both front ends build, and their encoding
DeviceFilter(orgId, status, classItems, online) ==
  encodeDf(<<
    IF Truthy(orgId) THEN Str(<<"o", "r", "g", " ", "=", " ">> \o StringOf(orgId)) ELSE Undefined,
    IF Truthy(status) THEN Str(<<"s", "t", "a", "t", "u", "s", " ", "e", "q", " ">> \o StringOf(status)) ELSE Undefined,
    IF classItems.present /\ Len(classItems.items) > 0
    THEN Str(<<"c", "l", "a", "s", "s", " ", "i", "n", " ", "(">> \o Join(classItems.items, Comma) \o <<")">>) ELSE Undefined,
    IF online.t \in {"true", "false"}
    THEN Str(IF online.t = "true" THEN <<"o", "n", "l", "i", "n", "e">> ELSE <<"o", "f", "f", "l", "i", "n", "e">>) ELSE Undefined >>)

NoItems == [present |-> FALSE, items |-> <<>>]
Items(items) == [present |-> TRUE, items |-> items]

\* v ? String(v) : undefined
StringIf(v) == IF Truthy(v) THEN Str(StringOf(v)) ELSE Undefined
\* v ? Number(v) : undefined
NumberIf(v) == IF Truthy(v) THEN ToNumber(StringOf(v)) ELSE Undefined

\* GET /orgs
RestOrgs(c) == listOrganizations(c, "rest")

\* GET /devices
RestDevices(c, query) ==
  LET classIn == IF query.classIn.t = "string"
                 THEN Items(SelectSeq([i \in 1..Len(SplitOn(query.classIn.s, ",")) |->
                                         trim(SplitOn(query.classIn.s, ",")[i])], NonEmpty))
                 ELSE NoItems
      online == IF query.online.t = "string"
                THEN (IF toLowerCase(query.online.s) \in {TextTrue, <<"1">>, <<"y", "e", "s">>}
                      THEN True ELSE False)
                ELSE Undefined
      df == DeviceFilter(StringIf(query.orgId), StringIf(query.status), classIn, online)
  IN listDevices(c, "rest",
       Params([pageSize |-> NumberIf(query.pageSize), cursor |-> StringIf(query.cursor),
               df |-> df]))

\* GET /devices/:id
RestDevice(c, id) == getDevice(c, "rest", Str(id))

\* GET /alerts
RestAlerts(c, query) ==
  listAlerts(c, "rest",
    Params([pageSize |-> NumberIf(query.pageSize), cursor |-> StringIf(query.cursor),
            status |-> StringIf(query.status)]))

\* POST /alerts/:uid/reset
RestResetAlert(c, uid, body) ==
  IF RestReadOnly THEN Refuse("rest", "resetAlert", "403")
  ELSE resetAlert(c, "rest", uid, body)

\* POST /scripts/run
RestRunScript(c, reqBody) ==
  IF RestReadOnly THEN Refuse("rest", "runScript", "403")
  ELSE LET body == IF reqBody.present THEN reqBody.obj ELSE <<>>
       IN runScript(c, "rest", Field(body, "deviceId"), Field(body, "scriptId"),
                    OrElse(Field(body, "parameters"), Obj(<<>>)),
                    IF Truthy(OrElse(Field(body, "dryRun"), True)) THEN True ELSE False)

\* tool listOrganizations
McpListOrganizations(c) == listOrganizations(c, "mcp")

\* tool listDevices
McpListDevices(c, input) ==
  listDevices(c, "mcp",
    Params([pageSize |-> input.pageSize, cursor |-> input.cursor,
            df |-> DeviceFilter(input.orgId, input.status, input.classIn, input.online)]))

\* tool getDevice
McpGetDevice(c, deviceId) == getDevice(c, "mcp", deviceId)

\* tool listAlerts
McpListAlerts(c, input) ==
  listAlerts(c, "mcp",
    Params([pageSize |-> input.pageSize, cursor |-> input.cursor, status |-> input.status]))

\* tool resetAlert
McpResetAlert(c, input) ==
  IF McpReadOnly THEN Refuse("mcp", "resetAlert", "throws")
  ELSE resetAlert(c, "mcp", input.uid,
         IF Truthy(input.activity) \/ Truthy(input.note)
         THEN Body([activity |-> input.activity, note |-> input.note])
         ELSE NoBody)

\* tool runScript
McpRunScript(c, input) ==
  IF McpReadOnly THEN Refuse("mcp", "runScript", "throws")
  ELSE runScript(c, "mcp", input.deviceId, input.scriptId, input.parameters, input.dryRun)

\* ------------------------------------------------------------------------
\* The operations as the front ends and other callers invoke them
\* ------------------------------------------------------------------------
EnvValues ==
  {Unset, SetTo(TextTrue), SetTo(<<"0">>), SetTo(TextFalse), SetTo(<<"F", "A", "L", "S", "E">>)}
StyleOptions == {"undefined", "actions", "legacy", "classic"}

Uids == {<<"a">>, <<"a", "/", "b">>}
DeviceIds == {Num(<<"7">>), Str(<<"d">>)}
ScriptIds == {Num(<<"3">>)}
ParameterValues == {Undefined, Obj(<<"k">>)}
DryRunValues ==
  {Undefined, Null, True, False, Num(<<"0">>), Num(<<"1">>), Str(<<>>), Str(<<"n", "o">>)}

ResetBodies ==
  {NoBody, Body(<<>>),
   Body([note |-> Str(<<"x">>)]),
   Body([activity |-> Str(<<"a">>)]),
   Body([activity |-> Str(<<>>), note |-> Str(<<>>)]),
   Body([activity |-> Str(<<"a">>), note |-> Str(<<"x">>)]),
   Body([note |-> Str(<<"x">>), extra |-> Str(<<"z">>)])}

RunBodies ==
  {NoBody}
  \cup {Body([deviceId |-> d, scriptId |-> i]) : d \in DeviceIds, i \in ScriptIds}
  \cup {Body([deviceId |-> Num(<<"7">>), scriptId |-> i, parameters |-> Obj(<<"k">>),
              dryRun |-> v]) :
          i \in ScriptIds, v \in {False, Str(<<"n", "o">>), Num(<<"0">>)}}

\* page and organisation parameters travel together to keep the product small
Paging == {<<Undefined, Undefined>>, <<Str(<<"0", "5">>), Str(<<"c">>)>>, <<Str(<<"0">>), Undefined>>}
Scopes == {<<Undefined, Undefined>>, <<Str(<<"7">>), Str(<<"A">>)>>}

DeviceQueries ==
  {[pageSize |-> pg[1], cursor |-> pg[2], orgId |-> sc[1], status |-> sc[2],
    classIn |-> cl, online |-> on] :
     pg \in Paging, sc \in Scopes,
     cl \in {Undefined, Str(<<"M", ",", " ", "L">>), Str(<<",">>)},
     on \in {Undefined, Str(<<"Y", "E", "S">>), Str(<<"n", "o">>)}}

AlertQueries ==
  {[pageSize |-> pg[1], cursor |-> pg[2], status |-> st] :
     pg \in Paging, st \in {Undefined, Str(<<"O", " ", "K">>)}}

DeviceInputs ==
  {[pageSize |-> pg[1], cursor |-> pg[2], orgId |-> org, status |-> Undefined,
    classIn |-> cl, online |-> on] :
     pg \in {<<Undefined, Undefined>>, <<Num(<<"5">>), Str(<<"c">>)>>},
     org \in {Undefined, Str(<<"7">>), Num(<<"0">>)},
     cl \in {NoItems, Items(<<>>), Items(<< <<"M">>, <<"L">> >>)},
     on \in {Undefined, True, False}}

AlertInputs ==
  {[pageSize |-> pg[1], cursor |-> pg[2], status |-> st] :
     pg \in {<<Undefined, Undefined>>, <<Num(<<"5">>), Str(<<"c">>)>>},
     st \in {Undefined, Str(<<"O", " ", "K">>)}}

ResetInputs ==
  [uid : Uids, activity : {Undefined, Str(<<>>), Str(<<"a">>)}, note : {Undefined, Str(<<"x">>)}]

RunInputs ==
  [deviceId : DeviceIds, scriptId : ScriptIds, parameters : ParameterValues,
   dryRun : {Undefined, True, False}]

\* the answers explored behind the front ends
OpsOutcomes == {HttpResponse(200), HttpResponse(404)}

InitOps ==
  /\ token = NoToken
  /\ runscriptStyle \in {ConstructStyle(opt) : opt \in StyleOptions}
  /\ clock = 0
  /\ issued = 0
  /\ calls = [c \in Calls |-> IdleCall]
  /\ readOnlyEnv \in EnvValues
  /\ refused = NoRefusal
  /\ parts = <<>>
  /\ dfOut = NoDf
  /\ freshOut = NoFresh

OrgsRoute == RestOrgs(1)
DevicesRoute == \E q \in DeviceQueries : RestDevices(1, q)
DeviceRoute == \E id \in Uids : RestDevice(1, id)
AlertsRoute == \E q \in AlertQueries : RestAlerts(1, q)
ResetAlertRoute == \E uid \in Uids : \E b \in ResetBodies : RestResetAlert(1, uid, b)
RunScriptRoute == \E b \in RunBodies : RestRunScript(1, b)

ListOrganizationsTool == McpListOrganizations(1)
ListDevicesTool == \E in \in DeviceInputs : McpListDevices(1, in)
GetDeviceTool == \E d \in DeviceIds : McpGetDevice(1, d)
ListAlertsTool == \E in \in AlertInputs : McpListAlerts(1, in)
ResetAlertTool == \E in \in ResetInputs : McpResetAlert(1, in)
RunScriptTool == \E in \in RunInputs : McpRunScript(1, in)

\* the client's operations called without a front end
DirectResetAlert == \E uid \in Uids : \E b \in ResetBodies : resetAlert(1, "client", uid, b)
DirectRunScript ==
  \E d \in DeviceIds : \E i \in ScriptIds : \E ps \in ParameterValues : \E v \in DryRunValues :
    runScript(1, "client", d, i, ps, v)

TokenGrantedOps == FetchTokenOk(1)
TokenRefusedOps == FetchTokenFail(1)
SettleOps == \E o \in OpsOutcomes : Respond(1, o)

NextOps ==
  \/ OrgsRoute \/ DevicesRoute \/ DeviceRoute \/ AlertsRoute
  \/ ResetAlertRoute \/ RunScriptRoute
  \/ ListOrganizationsTool \/ ListDevicesTool \/ GetDeviceTool \/ ListAlertsTool
  \/ ResetAlertTool \/ RunScriptTool
  \/ DirectResetAlert \/ DirectRunScript
  \/ TokenGrantedOps \/ TokenReturnedSolo \/ TokenRefusedOps \/ SettleOps

SpecOps == InitOps /\ [][NextOps]_vars


\* ------------------------------------------------------------------------
\* C7: while READ_ONLY, compared without regard to case, is anything other
\* than "false" (unset included), no request to a front end starts a
\* resetAlert or runScript call: none issues a POST or DELETE, a refused
\* request acquires no token, and read requests go through.
\* ------------------------------------------------------------------------
NoFrontEndWrite ==
  \A c \in Calls :
    calls[c].via \in {"rest", "mcp"} =>
      /\ calls[c].op \notin {"resetAlert", "runScript"}
      /\ calls[c].cfg.method \notin {"POST", "DELETE"}

C7_GateBlocksWrites ==
  (~readOnlyEnv.set \/ toLowerCase(readOnlyEnv.s) # <<"f", "a", "l", "s", "e">>) =>
    /\ NoFrontEndWrite
    /\ (\A c \in Calls : calls[c].pc = "idle") => (~token.held /\ issued = 0)

C7_Witness ==
  /\ readOnlyEnv = SetTo(<<"0">>)
  /\ refused = [via |-> "mcp", op |-> "runScript", reply |-> "throws"]
  /\ \E c \in Calls :
       /\ calls[c].via = "rest"
       /\ calls[c].op = "listDevices"
       /\ calls[c].pc = "done"

\* C7 as first stated: READ_ONLY being any text other than "false" keeps the
\* front ends from starting a mutating call
C7_GateLiteral ==
  ~(readOnlyEnv.set /\ readOnlyEnv.s = <<"f", "a", "l", "s", "e">>) => NoFrontEndWrite

\* ------------------------------------------------------------------------
\* C10: every runScript request has the shape of the style set at
\* construction: legacy posts to the device run-script endpoint with no type
\* field, actions posts to the device actions endpoint with type RUN_SCRIPT;
\* dryRun is the boolean truth value of the argument; the style never changes.
\* ------------------------------------------------------------------------
StartsWith(str, prefix) ==
  Len(str) >= Len(prefix) /\ SubSeq(str, 1, Len(prefix)) = prefix
EndsWith(str, suffix) ==
  Len(str) >= Len(suffix) /\ SubSeq(str, Len(str) - Len(suffix) + 1, Len(str)) = suffix

\* the falsy values of JavaScript; a missing argument is undefined
Falsy(v) == v \in {Undefined, Null, False, NaN, Num(<<"0">>), Str(<<>>)}

RunScriptShape ==
  \A c \in Calls :
    calls[c].op = "runScript" =>
      LET cfg == calls[c].cfg
      IN /\ cfg.method = "POST"
         /\ cfg.hasData
         /\ cfg.data.dryRun \in BOOLEAN
         /\ cfg.data.dryRun = ~Falsy(calls[c].args.dryRun)
         /\ runscriptStyle = "legacy" =>
              /\ StartsWith(cfg.url, PathDevice)
              /\ EndsWith(cfg.url, SuffixRunScript)
              /\ "type" \notin DOMAIN cfg.data
         /\ runscriptStyle = "actions" =>
              /\ StartsWith(cfg.url, PathDevices \o Slash)
              /\ EndsWith(cfg.url, SuffixActions)
              /\ "type" \in DOMAIN cfg.data
              /\ cfg.data.type = "RUN_SCRIPT"

C10_RunScriptStyle == [](RunScriptShape) /\ [][runscriptStyle' = runscriptStyle]_vars

C10_Witness ==
  \E c \in Calls :
    /\ calls[c].op = "runScript"
    /\ calls[c].pc = "done"
    /\ runscriptStyle = "legacy"
    /\ calls[c].args.dryRun = Str(<<"n", "o">>)
    /\ calls[c].cfg.data.dryRun = TRUE

\* ------------------------------------------------------------------------
\* C11: resetAlert chooses its request from the body alone.  A body with a
\* non-empty activity or a non-empty note gives a POST to the alert's reset
\* path whose JSON body has exactly the fields activity and note (each
\* optional, with the value supplied); every other body, or none, gives a
\* DELETE to the alert path with no body.
\* ------------------------------------------------------------------------
NonEmptyText(v) == v.t = "string" /\ v.s # <<>>

AsksReset(body) ==
  /\ body.present
  /\ NonEmptyText(Field(body.obj, "activity")) \/ NonEmptyText(Field(body.obj, "note"))

C11_ResetAlertRequest ==
  \A c \in Calls :
    calls[c].op = "resetAlert" =>
      LET cfg == calls[c].cfg
          body == calls[c].args.body
      IN IF AsksReset(body)
         THEN /\ cfg.method = "POST"
              /\ cfg.url \in {PathAlert \o encodeURIComponent(uid) \o SuffixReset : uid \in Uids}
              /\ cfg.hasData
              /\ DOMAIN cfg.data \subseteq {"activity", "note"}
              /\ Field(cfg.data, "activity") = Field(body.obj, "activity")
              /\ Field(cfg.data, "note") = Field(body.obj, "note")
         ELSE /\ cfg.method = "DELETE"
              /\ cfg.url \in {PathAlert \o encodeURIComponent(uid) : uid \in Uids}
              /\ ~cfg.hasData

\* what does hold of every resetAlert request: the choice of method and path
\* follows the body alone, and a POST carries the body as it was supplied
C11_ResetAlertForwardsBody ==
  \A c \in Calls :
    calls[c].op = "resetAlert" =>
      LET cfg == calls[c].cfg
          body == calls[c].args.body
      IN IF AsksReset(body)
         THEN /\ cfg.method = "POST"
              /\ cfg.url \in {PathAlert \o encodeURIComponent(uid) \o SuffixReset : uid \in Uids}
              /\ cfg.hasData
              /\ cfg.data = body.obj
         ELSE /\ cfg.method = "DELETE"
              /\ cfg.url \in {PathAlert \o encodeURIComponent(uid) : uid \in Uids}
              /\ ~cfg.hasData

\* ------------------------------------------------------------------------
\* C12: calls that overlap and each find the token stale or absent each make
\* their own acquisition: none is skipped or shared.  The held token is the
\* one stored by the acquisition that completed last, and it is always the
\* whole token of one successful acquisition.
\* ------------------------------------------------------------------------
\* positions of the events of the given kinds in a log
At(log, kinds) == {i \in 1..Len(log) : log[i].e \in kinds}
\* serial numbers of the tokens a call's own acquisitions returned
TokenSerials(log) == {log[i].n : i \in At(log, {"token"})}
AllSerials == UNION {TokenSerials(calls[c].log) : c \in Calls}

\* every acquisition a call began is its own: it is pending, or it ended in
\* this call's log with a token or a failure before anything else happened
OwnAcquisitions ==
  \A c \in Calls :
    LET log == calls[c].log
    IN \A i \in At(log, {"acquire"}) :
         IF i = Len(log) THEN calls[c].pc \in {"fetch", "refresh"}
         ELSE log[i + 1].e \in {"token", "tokenfail"}

\* no two acquisitions, of one call or of two, share a token
NoSharedAcquisition ==
  /\ \A c \in Calls :
       Cardinality(TokenSerials(calls[c].log)) = Cardinality(At(calls[c].log, {"token"}))
  /\ \A c, d \in Calls :
       c # d => TokenSerials(calls[c].log) \cap TokenSerials(calls[d].log) = {}

LastAcquisitionHeld ==
  /\ token.held <=> AllSerials # {}
  /\ token.held =>
       /\ token.access_token \in AllSerials
       /\ \A n \in AllSerials : n <= token.access_token
       /\ token.expires_in \in ExpiresInValues
       /\ token.obtained_at <= EpochSeconds(clock)

\* a step in which a call's acquisition completes stores that call's token
CompletionStores ==
  \A c \in Calls :
    (calls[c].pc \in {"fetch", "refresh"}
       /\ At(calls'[c].log, {"token"}) # At(calls[c].log, {"token"})) =>
      /\ token'.held
      /\ token'.access_token \in TokenSerials(calls'[c].log) \ AllSerials
      /\ token'.obtained_at = EpochSeconds(clock)

C12_ConcurrentAcquisitions ==
  /\ [](OwnAcquisitions /\ NoSharedAcquisition /\ LastAcquisitionHeld)
  /\ [][CompletionStores]_vars

\* both calls found no usable token, both acquired, and the token of the
\* acquisition that completed second is the one held
C12_Witness ==
  /\ \A c \in Calls : calls[c].pc = "done" /\ calls[c].log[1].e = "acquire"
  /\ TokenSerials(calls[1].log) = {2}
  /\ TokenSerials(calls[2].log) = {1}
  /\ token.held
  /\ token.access_token = 2

\* ------------------------------------------------------------------------
\* C13: the token is absent until the first successful acquisition; it
\* changes only by being replaced as a whole with the token of one successful
\* acquisition (Absent to Held, Held to Held); once held it is never absent
\* again.
\* ------------------------------------------------------------------------
\* some call's pending acquisition succeeds in this step and returns tok
AcquiredInStep(tok) ==
  \E c \in Calls :
    /\ calls[c].pc \in {"fetch", "refresh"}
    /\ Len(calls'[c].log) > Len(calls[c].log)
    /\ calls'[c].log[Len(calls[c].log) + 1].e = "token"
    /\ calls'[c].log[Len(calls[c].log) + 1].n = tok.access_token
    /\ \E e \in ExpiresInValues : tok = NewToken(issued + 1, e, clock)

TokenLifecycle ==
  /\ token.held => token'.held
  /\ token' # token => AcquiredInStep(token')
  /\ issued' # issued => (issued' = issued + 1 /\ AcquiredInStep(token'))

AbsentUntilAcquired ==
  /\ token.held <=> issued > 0
  /\ ~token.held => token = NoToken

C13_TokenLifecycle == []AbsentUntilAcquired /\ [][TokenLifecycle]_vars

\* a held token has been replaced by a second one, and an acquisition that
\* failed left a held token behind
C13_Witness ==
  /\ token.held
  /\ token.access_token = 2
  /\ \E c \in Calls :
       /\ calls[c].pc = "failed"
       /\ KindsOf(calls[c].log) = <<"acquire", "token", "send", "err", "acquire", "tokenfail">>

\* ------------------------------------------------------------------------
\* C14: a token acquisition that fails is not retried: the call fails with
\* the acquisition's error and does nothing more.  Failing before attempt 0
\* it has issued no resource request; failing in the forced refresh after a
\* 401 it makes no further attempt.  The token held before, or its absence,
\* is left as it was.
\* ------------------------------------------------------------------------
FailedAcquisitionEnds ==
  \A c \in Calls :
    LET log == calls[c].log
    IN \A i \in At(log, {"tokenfail"}) :
         /\ i = Len(log)
         /\ log[i - 1].e = "acquire"
         /\ calls[c].pc = "failed"
         /\ SameError(calls[c].result, log, i)
         /\ i = 2 => Attempts(log) = 0
         /\ i > 2 => /\ Is401(log[i - 2])
                     /\ Attempts(log) = calls[c].attempt + 1

\* the step in which an acquisition fails leaves the token alone
FailedAcquisitionKeepsToken ==
  (\E c \in Calls :
     At(calls'[c].log, {"tokenfail"}) # At(calls[c].log, {"tokenfail"})) =>
    token' = token

C14_AcquisitionFailureSurfaces ==
  []FailedAcquisitionEnds /\ [][FailedAcquisitionKeepsToken]_vars

\* one call failed acquiring before attempt 0, the other in the forced
\* refresh after a 401, which left the token it had acquired in place
C14_Witness ==
  /\ KindsOf(calls[1].log) = <<"acquire", "tokenfail">>
  /\ calls[1].result.kind = "error"
  /\ calls[1].result.status = 500
  /\ KindsOf(calls[2].log) = <<"acquire", "token", "send", "err", "acquire", "tokenfail">>
  /\ calls[2].result.at = 6
  /\ ~calls[2].result.response
  /\ token.held
  /\ token.access_token = 1

\* ------------------------------------------------------------------------
\* C15: a call checks the token's freshness once, when it starts: fresh, it
\* acquires nothing before attempt 0; stale or absent, it acquires exactly
\* once.  A retry after 429 or 5xx acquires nothing, so a call that saw only
\* 429 and 5xx ends with the token it had at attempt 0, unless another call
\* ran beside it.
\* ------------------------------------------------------------------------
SendSerials(log) == {log[i].n : i \in At(log, {"send"})}

OneFreshnessCheck ==
  \A c \in Calls :
    LET log == calls[c].log
    IN /\ calls[c].pc # "idle" =>
            /\ log[1].e \in {"fresh", "acquire"}
            /\ At(log, {"fresh"}) \subseteq {1}
            /\ \A i \in At(log, {"acquire"}) : i = 1 \/ (log[i - 1].e = "err" /\ Is401(log[i - 1]))
            /\ \A i \in At(log, {"send"}) :
                 i > 1 /\ (log[i - 1].e \in {"fresh", "token"}
                            \/ (log[i - 1].e = "wait" /\ Is429or5xx(log[i - 2])))
            /\ \A i \in At(log, {"wait"}) : i < Len(log) => log[i + 1].e = "send"
       /\ AllOf(Responses(log), Is429or5xx) =>
            /\ Acquisitions(log) = (IF StartedFresh(log) \/ log = <<>> THEN 0 ELSE 1)
            /\ (Attempts(log) >= 1 /\ \A d \in Calls \ {c} : calls[d].log = <<>>) =>
                 /\ token.held
                 /\ SendSerials(log) = {token.access_token}

\* the check made when a call starts is the freshness of the token then held,
\* and no settling request or elapsed wait touches the token
CheckedAtStart ==
  \A c \in Calls :
    /\ (calls[c].pc = "idle" /\ calls'[c].pc # "idle") =>
         (calls'[c].log[1].e = "fresh" <=> tokenFresh(token, clock))
    /\ (calls[c].pc \in {"req", "sleep"} /\ calls'[c] # calls[c]) => token' = token

C15_FreshnessCheckedOnce == []OneFreshnessCheck /\ [][CheckedAtStart]_vars

\* a call that started with a fresh token and was answered 429 is retrying
\* with that token although it has gone stale during the wait
C15_Witness ==
  \E c \in Calls :
    /\ StartedFresh(calls[c].log)
    /\ StatusesOf(calls[c].log) = <<429>>
    /\ calls[c].pc = "req"
    /\ Attempts(calls[c].log) = 2
    /\ Acquisitions(calls[c].log) = 0
    /\ ~tokenFresh(token, clock)

\* ------------------------------------------------------------------------
\* C16: within one call, at every moment at most one of its HTTP attempts or
\* token acquisitions is in flight, and none while it waits, whatever the
\* other calls are doing.
\* ------------------------------------------------------------------------
Count(log, kinds) == Cardinality(At(log, kinds))
\* requests issued and not yet settled, acquisitions begun and not yet ended
HttpInFlight(log) == Count(log, {"send"}) - Count(log, {"ok", "err"})
AcquisitionsInFlight(log) == Count(log, {"acquire"}) - Count(log, {"token", "tokenfail"})
\* the wait that is still running, if the last event scheduled one
Waiting(log) == IF Len(log) > 0 /\ log[Len(log)].e = "wait" THEN 1 ELSE 0

\* every request, acquisition and wait of the call is followed at once, in
\* the call's own history, by its end, and nothing ends that did not begin
\* just before: no two of them are ever open together
OneAtATime(log) ==
  \A i \in 1..Len(log) :
    /\ log[i].e = "send" => (i = Len(log) \/ log[i + 1].e \in {"ok", "err"})
    /\ log[i].e = "acquire" => (i = Len(log) \/ log[i + 1].e \in {"token", "tokenfail"})
    /\ log[i].e = "wait" => (i = Len(log) \/ log[i + 1].e = "send")
    /\ log[i].e \in {"ok", "err"} => (i > 1 /\ log[i - 1].e = "send")
    /\ log[i].e \in {"token", "tokenfail"} => (i > 1 /\ log[i - 1].e = "acquire")

C16_SequentialAttempts ==
  \A c \in Calls :
    /\ OneAtATime(calls[c].log)
    /\ HttpInFlight(calls[c].log) + AcquisitionsInFlight(calls[c].log)
         + Waiting(calls[c].log) <= 1
    /\ HttpInFlight(calls[c].log) = (IF calls[c].pc = "req" THEN 1 ELSE 0)
    /\ AcquisitionsInFlight(calls[c].log) = (IF calls[c].pc \in {"fetch", "refresh"} THEN 1 ELSE 0)
    /\ Waiting(calls[c].log) = (IF calls[c].pc = "sleep" THEN 1 ELSE 0)

\* one call is on its attempt after a forced refresh while the other call's
\* acquisition is in flight beside it
C16_Witness ==
  /\ calls[1].pc = "req"
  /\ calls[1].attempt = 1
  /\ KindsOf(calls[1].log) = <<"acquire", "token", "send", "err", "acquire", "token", "send">>
  /\ calls[2].pc = "refresh"
  /\ Attempts(calls[2].log) = 1

\* ------------------------------------------------------------------------
\* The executor under concurrent calls when the transport, the timers and the
\* event loop keep their promises to each call: its request or its token
\* acquisition in flight settles, its timer that was set fires, and its
\* continuation that is due runs.  The calls interleave as under Spec, step
\* by step, and the remote answers each request in any way.  The clock
\* stands still: time decides nothing in the executor but the freshness
\* test at the start of a call, and both answers of that test occur at one
\* instant (a token granted for RefreshMargin seconds is stale at once, one
\* granted for a second more is fresh).
\* ------------------------------------------------------------------------
NextLive ==
  Invoke \/ TokenGranted \/ TokenReturned \/ TokenRefused \/ Settle \/ TimerFires

Progress ==
  \A c \in Calls :
    /\ WF_vars(FetchTokenOk(c) \/ FetchTokenFail(c))
    /\ WF_vars(AfterFetchToken(c))
    /\ WF_vars(\E o \in CoreOutcomes : Respond(c, o))
    /\ WF_vars(Wake(c))

SpecLive == Init /\ [][NextLive]_vars /\ Progress

\* ------------------------------------------------------------------------
\* C17: provided every request and acquisition settles and every wait
\* elapses, every call ends, with its data or with an error, whatever the
\* remote answers and however the call interleaves with others.  A wait once
\* scheduled is not cancelled: the call stays in it until the timer fires,
\* and the firing issues the next attempt.
\* ------------------------------------------------------------------------
Ended(c) == calls[c].pc \in {"done", "failed"}

WaitThenNextAttempt ==
  \A c \in Calls :
    (calls[c].pc = "sleep" /\ calls'[c] # calls[c]) =>
      /\ calls'[c].pc = "req"
      /\ calls'[c].attempt = calls[c].attempt + 1
      /\ KindsOf(calls'[c].log) = Append(KindsOf(calls[c].log), "send")

C17_EveryCallEnds ==
  /\ \A c \in Calls : (calls[c].pc # "idle") ~> Ended(c)
  /\ \A c \in Calls : (calls[c].pc = "sleep") ~> (calls[c].pc = "req")
  /\ [][WaitThenNextAttempt]_vars

\* both calls have ended; call 1 went through every wait the policy allows,
\* and call 2 ran beside it: it acquired the second token after call 1 had
\* sent with the first and before call 1 sent with the second
C17_Witness ==
  LET sends == Only(calls[1].log, {"send"})
  IN /\ Ended(1)
     /\ Ended(2)
     /\ Len(Waits(calls[1].log)) = RetryLimit
     /\ calls[1].attempt = RetryLimit
     /\ calls[1].delay = 0
     /\ Len(sends) = RetryLimit + 1
     /\ sends[1].n = 1
     /\ sends[Len(sends)].n = 2
     /\ \E i \in 1..Len(calls[2].log) :
          calls[2].log[i].e = "token" /\ calls[2].log[i].n = 2

\* ------------------------------------------------------------------------
\* C18: whatever the remote answers, 401 mixed with 429 and 5xx included, a
\* call makes at most 5 HTTP attempts, waits at most 4 times and acquires a
\* token at most twice; when it fails, its error is that of the last HTTP
\* attempt or token acquisition it performed.
\* ------------------------------------------------------------------------
C18_BoundedWork ==
  \A c \in Calls :
    LET log == calls[c].log
    IN /\ Attempts(log) <= RetryLimit + 1
       /\ Len(Waits(log)) <= RetryLimit
       /\ Acquisitions(log) <= ReauthLimit + 1
       /\ Attempts(log) <= calls[c].attempt + 1
       /\ calls[c].pc = "failed" =>
            /\ log[Len(log)].e \in {"err", "tokenfail"}
            /\ SameError(calls[c].result, log, Len(log))

\* a call acquired twice, around a 401, then met 5xx and 429 until its
\* fifth attempt, whose error it failed with
C18_Witness ==
  \E c \in Calls :
    /\ calls[c].pc = "failed"
    /\ StatusesOf(calls[c].log) = <<401, 500, 429, 599, 429>>
    /\ Attempts(calls[c].log) = 5
    /\ Acquisitions(calls[c].log) = 2
    /\ calls[c].result.status = 429
    /\ calls[c].result.at = Len(calls[c].log)

\* ------------------------------------------------------------------------
\* C19: whenever a request is issued a token is held, so reading its access
\* token never fails, and the Authorization header carries the access token
\* held at that moment.  The attempt after a forced refresh carries the token
\* held when it is issued: the one that refresh acquired, or one that another
\* call's acquisition stored after it; never the one that drew the 401.
\* ------------------------------------------------------------------------
\* the requests a call issued right after an acquisition of its own
AfterOwnToken(log) == {i \in At(log, {"send"}) : i > 1 /\ log[i - 1].e = "token"}

NeverWithoutToken ==
  \A c \in Calls :
    LET log == calls[c].log
    IN /\ At(log, {"typeerror"}) = {}
       /\ calls[c].result.kind # "typeerror"
       /\ calls[c].pc \in {"req", "sleep", "fetched", "refreshed"} => token.held
       /\ \A i \in AfterOwnToken(log) :
            /\ log[i].n >= log[i - 1].n
            /\ log[i].n <= issued
            /\ (i > 4 /\ log[i - 2].e = "acquire") =>
                 /\ Is401(log[i - 3])
                 /\ log[i - 4].e = "send"
                 /\ log[i].n > log[i - 4].n

\* the request issued in a step bears the token held as the step ends
BearsHeldToken ==
  \A c \in Calls :
    Len(calls'[c].log) > Len(calls[c].log) =>
      LET last == calls'[c].log[Len(calls'[c].log)]
      IN last.e = "send" => (token'.held /\ token' = token /\ last.n = token.access_token)

C19_BearerIsHeldToken == []NeverWithoutToken /\ [][BearsHeldToken]_vars

\* both calls drew a 401 with token 1 and refreshed; call 1's refresh
\* returned token 2, call 2's returned token 3 before call 1 went on, and
\* call 1 retried with token 3
C19_Witness ==
  /\ KindsOf(calls[1].log) = <<"acquire", "token", "send", "err", "acquire", "token", "send">>
  /\ calls[1].log[3].n = 1
  /\ calls[1].log[6].n = 2
  /\ calls[1].log[7].n = 3
  /\ KindsOf(calls[2].log) = <<"fresh", "send", "err", "acquire", "token", "send">>
  /\ calls[2].log[5].n = 3
  /\ token.access_token = 3

\* C19 as first stated: the attempt after a forced refresh, like the first
\* attempt after an acquisition, carries the token that acquisition returned
C19_RetryBearsOwnToken ==
  \A c \in Calls :
    LET log == calls[c].log
    IN /\ At(log, {"typeerror"}) = {}
       /\ \A i \in AfterOwnToken(log) :
            (i > 4 /\ log[i - 2].e = "acquire") =>
              /\ log[i].n = log[i - 1].n
              /\ log[i].n # log[i - 4].n

====
